---- MODULE Spec2Model ----
(***************************************************************************)
(* FontEco: a model of the glyph perforation pipeline.                     *)
(*                                                                         *)
(*   Spec       perforate_font (src/src/fonteco/fonts.py), one call, from  *)
(*              loading the font to saving it, with the helpers it calls   *)
(*              (generate_sobol_sequence, apply_blue_noise_dithering,      *)
(*              apply_shape_dithering, image_to_glyph, simplify_image).    *)
(*   SpecSobol  generate_sobol_sequence (src/src/fonteco/dithering.py) as  *)
(*              a function of its three arguments.                         *)
(*                                                                         *)
(* The render canvas is ImageSize x ImageSize pixels (512 x 512 in the     *)
(* code); a bitmap is a function from pixels to 0..255, 0 = ink and        *)
(* 255 = background.  Outlines are abstract values: the outline a font     *)
(* came with, or the outline traced from a binary bitmap.                  *)
(***************************************************************************)
EXTENDS Integers, Sequences, FiniteSets, TLC

(***************************************************************************)
(* Bounds of the model.                                                    *)
(***************************************************************************)
ImageSize == 2      \* side of the render canvas, in pixels
MaxGlyphs == 2      \* glyphs of an input font, before padding
SobolBits == 2      \* resolution of a unit-square sample: k / 2^SobolBits
MaxDim    == 3      \* SpecSobol: largest width and height
MaxCount  == 5      \* SpecSobol: largest num_points
ShapeCanvas  == 6   \* SpecShape: side of the bitmap
MaxMargin    == 2   \* SpecShape: largest margin
MaxShapeSize == 3   \* SpecShape: largest integer shape_size
SimplifyWidth == 2  \* SpecSimplify: pixels of the bitmap
MaxOutline    == 2  \* SpecGlyph: points of an outline that are followed
MaxCoordinate == 1  \* SpecGlyph: largest coordinate of a followed point
PointCanvas  == 3   \* SpecPoint: side of the bitmap
MaxPoints    == 2   \* SpecPoint: longest array of points
MaxPointSize == 3   \* SpecPoint: largest point_size
MaxThreads == 2     \* SpecGui: most worker threads started
WalkCanvas == 8     \* SpecPath: side of the coverage mask
MaxCentroids == 3   \* SpecPath: most centroids

(***************************************************************************)
(* Program constants.                                                      *)
(***************************************************************************)
TestLimit == 20     \* test mode: glyphs[0:20]
Threshold == 128    \* cv2.threshold(img, 128, 1, THRESH_BINARY)
ContourLimit == 65535   \* len(glyph.endPtsOfContours) > 65535
CanvasHeight == 512     \* image_size = (512, 512)

Background == 255
Ink == 0

Pixels == (0 .. ImageSize - 1) \X (0 .. ImageSize - 1)

\* Image.new("L", image_size, 255), and the canvas after draw.rectangle(fill=255)
WhiteImage == [p \in Pixels |-> Background]

Min(a, b) == IF a < b THEN a ELSE b
Max(a, b) == IF a > b THEN a ELSE b

\* Python's int() of the exact quotient a / b (b > 0): truncation towards zero
TruncDiv(a, b) == IF a >= 0 THEN a \div b ELSE -((-a) \div b)

(***************************************************************************)
(* generate_sobol_sequence                                                 *)
(***************************************************************************)
RECURSIVE Log2Floor(_)
\* int(np.log2(n)) for n >= 1
Log2Floor(n) == IF n < 2 THEN 0 ELSE 1 + Log2Floor(n \div 2)

\* int(np.log2(num_points)): np.log2(0) is -inf and int(-inf) raises
\* OverflowError; np.log2 of a negative number is nan and int(nan) raises ValueError
SobolError(num_points) ==
    IF num_points = 0 THEN "OverflowError"
    ELSE IF num_points < 0 THEN "ValueError"
    ELSE "none"

\* sampler.random_base2(m) returns 2^m points
SobolCount(num_points) == 2 ^ Log2Floor(num_points)

\* the numerators k of the samples k / 2^SobolBits of [0, 1)
Samples == 0 .. (2 ^ SobolBits - 1)

\* ScaleCoord with the coordinate rounded to the nearest integer, not cut
ScaleCoord_Rounded(k, extent) == (k * extent + 2 ^ (SobolBits - 1)) \div (2 ^ SobolBits)

\* qmc.scale(points, [0, 0], [width, height]) followed by astype(int)
ScaleCoord(k, extent) == (k * extent) \div (2 ^ SobolBits)

ScalePoint(kx, ky, width, height) == <<ScaleCoord(kx, width), ScaleCoord(ky, height)>>

\* the points generate_sobol_sequence can return for a width and a height
SobolPoints(width, height) ==
    {ScalePoint(kx, ky, width, height) : kx \in Samples, ky \in Samples}

\* The sets of coordinates of the arrays generate_sobol_sequence can return:
\* the scrambling is random, so any 2^m points of the grid, repeats included.
generate_sobol_sequence(width, height, num_points) ==
    {S \in SUBSET SobolPoints(width, height) :
        S # {} /\ Cardinality(S) <= SobolCount(num_points)}

(***************************************************************************)
(* apply_blue_noise_dithering: the square of side 2 * (point_size // 2) + 1 *)
(* around each point becomes background, clipped to the canvas.  The image *)
(* is changed in place and returned.                                       *)
(***************************************************************************)
\* SquareOn with a neighbourhood one pixel wider on every side
SquareOn_Wider(canvas, pt, point_size) ==
    LET half_size == (point_size + 1) \div 2
    IN {p \in canvas : /\ pt[1] - half_size <= p[1] /\ p[1] <= pt[1] + half_size
                       /\ pt[2] - half_size <= p[2] /\ p[2] <= pt[2] + half_size}

\* the pixels of `canvas` one point whitens: dx, dy in range(-half_size,
\* half_size + 1), kept if 0 <= x < width and 0 <= y < height
SquareOn(canvas, pt, point_size) ==
    LET half_size == point_size \div 2
    IN {p \in canvas : /\ pt[1] - half_size <= p[1] /\ p[1] <= pt[1] + half_size
                       /\ pt[2] - half_size <= p[2] /\ p[2] <= pt[2] + half_size}

PointSquare(pt, point_size) == SquareOn(Pixels, pt, point_size)

apply_blue_noise_dithering(image, sobol_points, point_size) ==
    [p \in Pixels |->
        IF \E pt \in sobol_points : p \in PointSquare(pt, point_size)
        THEN Background ELSE image[p]]

(***************************************************************************)
(* simplify_image                                                          *)
(***************************************************************************)
\* step = 256 // (num_levels - 1)
SimplifyStep(num_levels) == 256 \div (num_levels - 1)

\* levels = np.arange(0, 256, step), cut to its first num_levels entries
Levels(num_levels) ==
    LET step == SimplifyStep(num_levels)
        all  == {k * step : k \in 0 .. (255 \div step)}
    IN {l \in all : l < num_levels * step}

\* SimplifyPixel taking the level nearest to v, above v or below
SimplifyPixel_Nearest(v, num_levels) ==
    LET dist(l) == IF l >= v THEN l - v ELSE v - l
    IN CHOOSE l \in Levels(num_levels) :
           \A o \in Levels(num_levels) : dist(l) < dist(o) \/ (dist(l) = dist(o) /\ l >= o)

\* levels[np.digitize(v, levels) - 1]: the greatest level that is <= v
SimplifyPixel(v, num_levels) ==
    LET below == {l \in Levels(num_levels) : l <= v}
    IN CHOOSE l \in below : \A o \in below : o <= l

\* "ValueError" unless 2 <= num_levels <= 256
SimplifyError(num_levels) ==
    IF 2 <= num_levels /\ num_levels <= 256 THEN "none" ELSE "ValueError"

simplify_image(image, num_levels) ==
    [p \in DOMAIN image |-> SimplifyPixel(image[p], num_levels)]

(***************************************************************************)
(* apply_shape_dithering                                                   *)
(***************************************************************************)
\* a shape_size argument: an int, or a string
SizeInt(n) == [is_int |-> TRUE, n |-> n, s |-> ""]
SizeStr(s) == [is_int |-> FALSE, n |-> 0, s |-> s]

\* the two argument checks at the head of apply_shape_dithering
ShapeArgError(shape_type, shape_size) ==
    IF shape_type \notin {"circle", "rectangle"} THEN "ValueError"
    ELSE IF ~shape_size.is_int /\ shape_size.s \notin {"random", "biggest"}
         THEN "ValueError"
    ELSE "none"

\* black_pixels = np.where(img_array == 0)
BlackPixels(image) == {p \in DOMAIN image : image[p] = Ink}

\* NumShapes taking the percentage of all pixels of the bitmap
NumShapes_OfCanvas(image, reduction_percentage) ==
    TruncDiv(Cardinality(DOMAIN image) * reduction_percentage, 100)

\* num_shapes = int(len(black_pixels) * (reduction_percentage / 100)); for the
\* counts and percentages used here the float product has the integer part of
\* the exact one
NumShapes(image, reduction_percentage) ==
    TruncDiv(Cardinality(BlackPixels(image)) * reduction_percentage, 100)

\* len(black_pixels[:num_shapes]): a negative bound counts from the end
SliceLen(len, n) == IF n >= 0 THEN Min(n, len) ELSE Max(len + n, 0)

RECURSIVE Arrangements(_, _)
\* the sequences of k distinct elements of S: what a shuffle can put first
Arrangements(S, k) ==
    IF k = 0 THEN {<<>>}
    ELSE UNION {{<<x>> \o t : t \in Arrangements(S \ {x}, k - 1)} : x \in S}

\* width, height = image.size
Width(image) == Cardinality({p[1] : p \in DOMAIN image})
Height(image) == Cardinality({p[2] : p \in DOMAIN image})

\* FitsCanvas asking only that the shape lies on the canvas
FitsCanvas_NoMargin(image, c, half_size, margin) ==
    /\ c[1] - half_size >= 0 /\ c[1] + half_size < Width(image)
    /\ c[2] - half_size >= 0 /\ c[2] + half_size < Height(image)

\* x - half_size >= margin and x + half_size < width - margin, and so for y
FitsCanvas(image, c, half_size, margin) ==
    /\ c[1] - half_size >= margin /\ c[1] + half_size < Width(image) - margin
    /\ c[2] - half_size >= margin /\ c[2] + half_size < Height(image) - margin

\* the pixels a shape of the given half size covers around its centre
ShapePixels(c, half_size, shape_type) ==
    {<<c[1] + dx, c[2] + dy>> : <<dx, dy>> \in
        {d \in (-half_size .. half_size) \X (-half_size .. half_size) :
            shape_type = "circle" => d[1] * d[1] + d[2] * d[2] <= half_size * half_size}}

\* TooClose with the margin left out of the least distance
TooClose_NoMargin(c, half_size, other, margin) ==
    LET min_distance == half_size + (other[3] \div 2)
        d2 == (c[1] - other[1]) * (c[1] - other[1]) + (c[2] - other[2]) * (c[2] - other[2])
    IN min_distance > 0 /\ d2 < min_distance * min_distance

\* distance < margin + half_size + other // 2, on the squares of both sides
TooClose(c, half_size, other, margin) ==
    LET min_distance == margin + half_size + (other[3] \div 2)
        d2 == (c[1] - other[1]) * (c[1] - other[1]) + (c[2] - other[2]) * (c[2] - other[2])
    IN min_distance > 0 /\ d2 < min_distance * min_distance

\* _get_biggest_possible_shape and _get_random_shape_size raise Warning on entry,
\* so both string policies raise as soon as a size is asked for
SizeError(shape_size) == IF shape_size.is_int THEN "none" ELSE "Warning"

\* One turn of the loop over black_pixels[:num_shapes].  st.shape_size is the
\* local variable shape_size, which the loop over placed_shapes assigns to.
ShapeTurn(st, c, shape_type, margin) ==
    IF st.error # "none" \/ st.image[c] = Background THEN st
    ELSE IF SizeError(st.shape_size) # "none"
         THEN [st EXCEPT !.error = SizeError(st.shape_size)]
    ELSE
      LET size      == st.shape_size.n
          half_size == size \div 2
          n         == Len(st.placed)
          hits      == {k \in 1 .. n : TooClose(c, half_size, st.placed[k], margin)}
          first     == IF hits = {} THEN 0 ELSE CHOOSE k \in hits : \A j \in hits : k <= j
          after     == IF ~FitsCanvas(st.image, c, half_size, margin) \/ n = 0 THEN st.shape_size
                       ELSE SizeInt(st.placed[IF first = 0 THEN n ELSE first][3])
          cover     == ShapePixels(c, half_size, shape_type)
      IN IF ~FitsCanvas(st.image, c, half_size, margin) THEN st
         ELSE IF first # 0 THEN [st EXCEPT !.shape_size = after]
         ELSE IF \E p \in cover : st.image[p] = Background
              THEN [st EXCEPT !.shape_size = after]
         ELSE [st EXCEPT !.shape_size = after,
                         !.image = [p \in DOMAIN st.image |->
                                      IF p \in cover THEN Background ELSE st.image[p]],
                         !.placed = Append(st.placed, <<c[1], c[2], size>>)]

RECURSIVE ShapeLoop(_, _, _, _)
ShapeLoop(st, cands, shape_type, margin) ==
    IF cands = <<>> THEN st
    ELSE ShapeLoop(ShapeTurn(st, Head(cands), shape_type, margin),
                   Tail(cands), shape_type, margin)

\* The results apply_shape_dithering can have, one for each order the shuffle
\* can give the candidate centres: [error, image, placed].  The input image is
\* copied, never changed.
apply_shape_dithering(image, shape_type, margin, shape_size, reduction_percentage) ==
    IF ShapeArgError(shape_type, shape_size) # "none"
    THEN {[error |-> ShapeArgError(shape_type, shape_size), image |-> image, placed |-> <<>>]}
    ELSE
      LET black == BlackPixels(image)
          k     == SliceLen(Cardinality(black), NumShapes(image, reduction_percentage))
          st0   == [error |-> "none", image |-> image, placed |-> <<>>,
                    shape_size |-> shape_size]
      IN {[error |-> r.error, image |-> r.image, placed |-> r.placed] :
            r \in {ShapeLoop(st0, cands, shape_type, margin) :
                     cands \in Arrangements(black, k)}}

(***************************************************************************)
(* Outlines.  An outline is the one a glyph of the input font came with,   *)
(* or one image_to_glyph built for a glyph from a binary bitmap; `of` is   *)
(* the glyph it was made for, so two outlines are equal only if they are   *)
(* the same object of the glyph table.                                     *)
(***************************************************************************)
Orig(name) == [kind |-> "orig", of |-> name, ink |-> {}]
Traced(name, path, ink) == [kind |-> path, of |-> name, ink |-> ink]

(***************************************************************************)
(* image_to_glyph                                                          *)
(***************************************************************************)
\* cv2.bitwise_not, the simplification of simplified mode, and the threshold:
\* the pixels of the binary bitmap that are 1
Binarize(image, render_mode, num_levels) ==
    LET inverted == [p \in Pixels |-> 255 - image[p]]
        img == IF render_mode = "simplified" THEN simplify_image(inverted, num_levels)
               ELSE inverted
    IN {p \in Pixels : img[p] > Threshold}

\* render_mode.startswith("optimized")
IsOptimized(render_mode) == render_mode \in {"optimized", "optimized_masked"}

\* What the try block of image_to_glyph ends with.  It fails when the tracer or the
\* pen throws (trace_ok = FALSE) and, in the optimized modes, when the trace has no
\* point: points_array.min(axis=0) of an empty array raises ValueError.
TraceFails(binary, render_mode, trace_ok) ==
    \/ ~trace_ok
    \/ IsOptimized(render_mode) /\ binary = {}

\* The result of image_to_glyph for a glyph: [error, glyph].  simplify_image is
\* called outside the try block, so its ValueError leaves the function; a failure
\* inside the try block returns font["glyf"]["space"], a KeyError if there is none.
image_to_glyph(image, table, name, render_mode, num_levels, trace_ok) ==
    LET binary == Binarize(image, render_mode, num_levels)
        path   == IF IsOptimized(render_mode) THEN render_mode ELSE "traced"
    IN IF render_mode = "simplified" /\ SimplifyError(num_levels) # "none"
       THEN [error |-> SimplifyError(num_levels), glyph |-> Orig(name)]
       ELSE IF ~TraceFails(binary, render_mode, trace_ok)
            THEN [error |-> "none", glyph |-> Traced(name, path, binary)]
       ELSE IF "space" \in DOMAIN table
            THEN [error |-> "none", glyph |-> table["space"]]
       ELSE [error |-> "KeyError", glyph |-> Orig(name)]

\* The tracer is a collaborator.  On a bitmap without ink it returns no curve and
\* nothing in the try block can fail; on one with ink it may throw.
TraceOutcomes(image, render_mode, num_levels) ==
    IF render_mode = "simplified" /\ SimplifyError(num_levels) # "none" THEN {TRUE}
    ELSE IF Binarize(image, render_mode, num_levels) = {} THEN {TRUE}
    ELSE BOOLEAN

(***************************************************************************)
(* The text renderer: draw.text((50, 50), char, font=pil_font, fill=0).    *)
(* A collaborator; the model gives each character a fixed picture of ink   *)
(* pixels.  Characters are their codepoints.                               *)
(***************************************************************************)
TextInk(char) ==
    IF char = 32 THEN {} ELSE {<<0, 0>>, <<1, 0>>, <<0, 1>>, <<1, 1>>}

DrawText(image, char) ==
    [p \in Pixels |-> IF p \in TextInk(char) THEN Ink ELSE image[p]]

\* draw.point at the scaled end point of each pen command of a decomposed
\* composite: the corners of its bounding box land 50 pixels inside the canvas
DrawPen(image) ==
    [p \in Pixels |->
        IF p \in {<<0, 0>>, <<ImageSize - 1, ImageSize - 1>>} THEN Ink ELSE image[p]]

\* cyrillic_special_cases: glyph name -> the codepoint of the Latin substitute
cyrillic_special_cases ==
    [n \in {"uni041D", "uni041F", "uni042D", "uni042F", "uni044D", "uni044F",
            "uni0401", "uni0451", "uni0419", "uni0439"} |->
       CASE n = "uni041D" -> 72  [] n = "uni041F" -> 80  [] n = "uni042D" -> 69
         [] n = "uni042F" -> 82  [] n = "uni044D" -> 101 [] n = "uni044F" -> 114
         [] n = "uni0401" -> 69  [] n = "uni0451" -> 101 [] n = "uni0419" -> 78
         [] n = "uni0439" -> 110]

\* cyrillic_to_latin: codepoint -> the codepoint of the Latin analogue
cyrillic_to_latin ==
    [c \in {1040, 1042, 1045, 1047, 1048, 1050, 1052, 1054, 1056, 1057, 1058, 1059,
            1061, 1072, 1077, 1086, 1088, 1089, 1091, 1093} |->
       CASE c = 1040 -> 65  [] c = 1042 -> 66  [] c = 1045 -> 69  [] c = 1047 -> 51
         [] c = 1048 -> 78  [] c = 1050 -> 75  [] c = 1052 -> 77  [] c = 1054 -> 79
         [] c = 1056 -> 80  [] c = 1057 -> 67  [] c = 1058 -> 84  [] c = 1059 -> 89
         [] c = 1061 -> 88  [] c = 1072 -> 97  [] c = 1077 -> 101 [] c = 1086 -> 111
         [] c = 1088 -> 112 [] c = 1089 -> 99  [] c = 1091 -> 121 [] c = 1093 -> 120]

\* 0x0400 <= ord(unicode_char) <= 0x04FF
IsCyrillic(code) == 1024 <= code /\ code <= 1279

(***************************************************************************)
(* A glyph of the input font: its name, the first codepoint the cmap maps  *)
(* to it (NoCode if none), whether it is a composite, and whether its      *)
(* bounding box is flat (xMax = xMin or yMax = yMin).                      *)
(***************************************************************************)
NoCode == -1

G(name, code, composite, flat) ==
    [name |-> name, code |-> code, composite |-> composite, flat |-> flat]

\* RasterBranch asking the analogue table before the special-case table
RasterBranch_AnalogueFirst(g) ==
    IF g.code # NoCode /\ ~g.composite THEN "direct"
    ELSE IF g.code # NoCode /\ IsCyrillic(g.code) /\ g.code \in DOMAIN cyrillic_to_latin
         THEN "analogue"
    ELSE IF g.name \in DOMAIN cyrillic_special_cases THEN "special"
    ELSE "decompose"

\* Which branch of lines 159-253 draws the glyph
RasterBranch(g) ==
    IF g.code # NoCode /\ ~g.composite THEN "direct"
    ELSE IF g.name \in DOMAIN cyrillic_special_cases THEN "special"
    ELSE IF g.code # NoCode /\ IsCyrillic(g.code) /\ g.code \in DOMAIN cyrillic_to_latin
         THEN "analogue"
    ELSE "decompose"

\* The decomposition branch divides by the width and the height of the bounding
\* box of a composite: ZeroDivisionError if the box is flat.  decompose_glyph
\* returns None for a glyph that is no composite, and nothing is drawn.
RasterError(g) ==
    IF RasterBranch(g) = "decompose" /\ g.composite /\ g.flat
    THEN "ZeroDivisionError" ELSE "none"

\* ClearCanvas leaving the canvas as it is
ClearCanvas_Keep(image) == image

\* draw.rectangle([0, 0, image_size[0], image_size[1]], fill=255)
ClearCanvas(image) == [p \in Pixels |-> Background]

\* The canvas after lines 156-253: cleared, then drawn on
Rasterized(image, g) ==
    LET clear == ClearCanvas(image)
    IN CASE RasterBranch(g) = "direct"    -> DrawText(clear, g.code)
         [] RasterBranch(g) = "special"   -> DrawText(clear, cyrillic_special_cases[g.name])
         [] RasterBranch(g) = "analogue"  -> DrawText(clear, cyrillic_to_latin[g.code])
         [] RasterBranch(g) = "decompose" -> IF g.composite THEN DrawPen(clear) ELSE clear

(***************************************************************************)
(* Input fonts.                                                            *)
(***************************************************************************)
GlyphPool ==
    { G(".notdef", NoCode, FALSE, FALSE),    \* the default glyph
      G("space", 32, FALSE, FALSE),          \* U+0020, draws nothing
      G("A", 65, FALSE, FALSE),              \* a simple glyph with a codepoint
      G("glyph00003", NoCode, FALSE, FALSE), \* a simple glyph the cmap does not map
      G("Aacute", 193, TRUE, FALSE),         \* a composite with a codepoint
      G("uni00A0", 160, TRUE, TRUE) }        \* a composite of empty glyphs: flat box

\* the fonts of one to MaxGlyphs glyphs, in every glyph order
ShortFonts == UNION {Arrangements(GlyphPool, k) : k \in 1 .. MaxGlyphs}

\* TestLimit - 1 simple glyphs without a codepoint, to make a font that test
\* mode cuts short
PadNames ==
    <<"g01", "g02", "g03", "g04", "g05", "g06", "g07", "g08", "g09", "g10",
      "g11", "g12", "g13", "g14", "g15", "g16", "g17", "g18", "g19">>

Padding == [k \in 1 .. TestLimit - 1 |-> G(PadNames[k], NoCode, FALSE, FALSE)]

\* fonts of more than TestLimit glyphs: the padding, then two glyphs of which
\* test mode reaches the first only
LongFonts ==
    {Padding \o f : f \in
        {<<a, b>> : a \in {g \in GlyphPool : g.name \in {"space", "A"}},
                    b \in {g \in GlyphPool : g.name \in {"space", "A", ".notdef"}}}
        \ {<<a, a>> : a \in GlyphPool}}

Fonts == ShortFonts \cup LongFonts

\* font.getGlyphOrder()
GlyphOrder(f) == [k \in 1 .. Len(f) |-> f[k].name]

\* font.getReverseGlyphMap(): glyph name -> glyph index, for every glyph of the font
ReverseGlyphMap(f) == {f[k].name : k \in 1 .. Len(f)}

\* font["glyf"] as loaded
LoadedGlyf(f) == [n \in ReverseGlyphMap(f) |-> Orig(n)]

(***************************************************************************)
(* Name records: nameID and the payload `string`, which is bytes or a str. *)
(* A str is the sequence of its code points.                               *)
(***************************************************************************)
Bytes(data) == [kind |-> "bytes", data |-> data]
Str(data) == [kind |-> "str", data |-> data]

NameRec(id, string) == [nameID |-> id, string |-> string]

\* the str " Eco" of the f-string, and the str "Font Eco"
Suffix == <<32, 69, 99, 111>>
Fallback == <<70, 111, 110, 116, 32, 69, 99, 111>>

RECURSIVE Utf16Units(_)
\* the 16-bit units of a byte string of even length, big end first
Utf16Units(data) ==
    IF Len(data) < 2 THEN <<>>
    ELSE <<data[1] * 256 + data[2]>> \o Utf16Units(SubSeq(data, 3, Len(data)))

IsHighSurrogate(u) == 55296 <= u /\ u <= 56319
IsLowSurrogate(u) == 56320 <= u /\ u <= 57343

RECURSIVE UnitsDecodable(_)
\* no surrogate stands alone
UnitsDecodable(units) ==
    IF units = <<>> THEN TRUE
    ELSE IF IsHighSurrogate(units[1])
         THEN Len(units) >= 2 /\ IsLowSurrogate(units[2])
              /\ UnitsDecodable(SubSeq(units, 3, Len(units)))
    ELSE ~IsLowSurrogate(units[1]) /\ UnitsDecodable(Tail(units))

RECURSIVE UnitsToCodePoints(_)
UnitsToCodePoints(units) ==
    IF units = <<>> THEN <<>>
    ELSE IF IsHighSurrogate(units[1])
         THEN <<65536 + (units[1] - 55296) * 1024 + (units[2] - 56320)>>
              \o UnitsToCodePoints(SubSeq(units, 3, Len(units)))
    ELSE <<units[1]>> \o UnitsToCodePoints(Tail(units))

\* bytes.decode('utf-16-be') raises UnicodeDecodeError on a truncated unit and on
\* a surrogate that stands alone
Utf16Decodable(data) == Len(data) % 2 = 0 /\ UnitsDecodable(Utf16Units(data))
Utf16Decode(data) == UnitsToCodePoints(Utf16Units(data))

\* font["name"].names of the input font
LoadedNames ==
    << NameRec(1, Bytes(<<0, 84, 0, 105>>)),    \* family "Ti", UTF-16BE
       NameRec(2, Bytes(<<0, 82>>)),            \* subfamily "R"
       NameRec(4, Bytes(<<84, 105, 82>>)),      \* full name "TiR" in MacRoman: 3 bytes
       NameRec(4, Bytes(<<84, 105>>)),          \* "Ti" in MacRoman: reads as U+5469
       NameRec(1, Bytes(<<216, 0, 0, 65>>)),    \* a high surrogate before "A"
       NameRec(4, Bytes(<<216, 0, 220, 0>>)),   \* U+10000
       NameRec(1, Str(<<84, 105>>)),            \* a payload that is a str already
       NameRec(6, Str(<<84, 105>>)) >>          \* PostScript name

\* RewriteName giving every record the suffix, whatever its nameID
RewriteName_EveryRecord(r) ==
    IF r.string.kind = "bytes" /\ ~Utf16Decodable(r.string.data)
    THEN NameRec(r.nameID, Str(Fallback))
    ELSE NameRec(r.nameID,
                 Str((IF r.string.kind = "bytes" THEN Utf16Decode(r.string.data)
                      ELSE r.string.data) \o Suffix))

\* Lines 311-341 for one record
RewriteName(r) ==
    IF r.nameID \notin {1, 4} THEN r
    ELSE IF r.string.kind = "bytes" /\ ~Utf16Decodable(r.string.data)
         THEN NameRec(r.nameID, Str(Fallback))
    ELSE NameRec(r.nameID,
                 Str((IF r.string.kind = "bytes" THEN Utf16Decode(r.string.data)
                      ELSE r.string.data) \o Suffix))

(***************************************************************************)
(* Configurations: the keyword arguments of perforate_font.                *)
(***************************************************************************)
Config(pct, dmode, stype, ssize, margin, rmode, levels, test, callback) ==
    [reduction_percentage |-> pct, point_size |-> 1, dithering_mode |-> dmode,
     shape_type |-> stype, shape_size |-> ssize, margin |-> margin,
     render_mode |-> rmode, num_levels |-> levels, test |-> test,
     has_callback |-> callback]

\* dithering_mode with the shape arguments: the defaults of the signature
\* (circle, 10, 1) unless the mode is "shape"
DitherChoices ==
    {<<d, "circle", SizeInt(10), 1>> : d \in {"blue_noise", "line", "foo"}}
    \cup {<<"shape", t, z, 0>> : t \in {"circle", "rectangle", "foo"},
                                 z \in {SizeInt(1), SizeStr("biggest")}}

\* render_mode with num_levels
RenderChoices ==
    {<<r, 2>> : r \in {"original", "simplified", "optimized", "optimized_masked", "foo"}}
    \cup {<<"simplified", 1>>}

\* -25 is outside the documented range 0..100
Percentages == {-25, 0, 25}

PointDefaults == <<"blue_noise", "circle", SizeInt(10), 1>>

Configs ==
    \* every dithering mode at every percentage
    {Config(p, d[1], d[2], d[3], d[4], "original", 2, FALSE, TRUE) :
        p \in Percentages, d \in DitherChoices}
    \* every render mode, with the point and the shape operator
    \cup {Config(25, d[1], d[2], d[3], d[4], r[1], r[2], FALSE, TRUE) :
            d \in {PointDefaults, <<"shape", "circle", SizeInt(1), 0>>},
            r \in RenderChoices}
    \* test mode, and a call without a progress callback
    \cup {Config(p, "blue_noise", "circle", SizeInt(10), 1, "original", 2, t, c) :
            p \in {0, 25}, t \in BOOLEAN, c \in BOOLEAN}

\* the configurations tried on the fonts of more than TestLimit glyphs
LongConfigs ==
    {c \in Configs :
        /\ c.reduction_percentage = 25 /\ c.render_mode = "original"
        /\ c.has_callback
        /\ \/ c.dithering_mode = "blue_noise"
           \/ c.dithering_mode = "shape" /\ c.shape_type = "circle"
                                         /\ c.shape_size = SizeInt(1)}

(***************************************************************************)
(* perforate_font                                                          *)
(***************************************************************************)
VARIABLES
    cfg,               \* the keyword arguments of the call
    font,              \* the glyphs of the input font, in glyph order
    glyf,              \* font["glyf"]: glyph name -> outline
    names,             \* font["name"].names
    pc,                \* where the call is
    i,                 \* the position in `glyphs` of the glyph of this turn, from 1
    image,             \* the render canvas
    perforated_image,  \* what the removal operator returned
    sobol_points,      \* the coordinates of the array generate_sobol_sequence returned
    modified_glyphs,   \* the set modified_glyphs
    progress,          \* the values progress_callback was called with, in order
    output_writes,     \* how often output_font_path was written
    error,             \* the exception the call ended with, "none" otherwise
    stages,            \* the parts of the call that have run to their end
    rasterized,        \* the glyphs that were drawn on the canvas
    removal,           \* glyph name -> the removal operator applied to its bitmap
    returned,          \* glyph name -> what image_to_glyph returned for it
    sb,                \* SpecSobol: one call of generate_sobol_sequence
    bn,                \* SpecPoint: one call of apply_blue_noise_dithering
    sh,                \* SpecShape: one call of apply_shape_dithering
    sm,                \* SpecSimplify: one call of simplify_image
    ig,                \* SpecGlyph: one call of image_to_glyph
    gui,               \* SpecGui: the main window, its worker threads and the signals in flight
    rs,                \* SpecRaster: the drawing of one glyph on the canvas
    pw                 \* SpecPath: one ordering of centroids into a pen path

pvars == <<cfg, font, glyf, names, pc, i, image, perforated_image, sobol_points,
           modified_glyphs, progress, output_writes, error, stages, rasterized,
           removal, returned>>

\* the variables of the calls of single functions
fvars == <<sb, bn, sh, sm, ig, gui, rs, pw>>

\* what a call of one function leaves alone
NotSobol == <<pvars, bn, sh, sm, ig, gui, rs, pw>>
NotPoint == <<pvars, sb, sh, sm, ig, gui, rs, pw>>
NotShape == <<pvars, sb, bn, sm, ig, gui, rs, pw>>
NotSimplify == <<pvars, sb, bn, sh, ig, gui, rs, pw>>
NotGlyph == <<pvars, sb, bn, sh, sm, gui, rs, pw>>
NotGui == <<pvars, sb, bn, sh, sm, ig, rs, pw>>
NotRaster == <<pvars, sb, bn, sh, sm, ig, gui, pw>>
NotPath == <<pvars, sb, bn, sh, sm, ig, gui, rs>>

\* no call of the function is going on
Idle == [pc |-> "idle"]

vars == <<pvars, fvars>>

NoOutline == [kind |-> "none", of |-> "", ink |-> {}]

\* glyphs = font.getGlyphOrder(), cut to its first TestLimit names in test mode
Glyphs(f, test) == IF test THEN SubSeq(f, 1, Min(TestLimit, Len(f))) ELSE f

total_glyphs == Len(Glyphs(font, cfg.test))

\* the glyph of this turn of the loop
glyph == font[i]

\* ProgressValue reporting the glyph of this turn as already done
ProgressValue_AfterGlyph(done, total) == ((done + 1) * 100) \div total

\* int((i / total_glyphs) * 100), i counted from 0.  The quotient is a double;
\* it equals the exact floor for every total below 50.
ProgressValue(done, total) == (done * 100) \div total

\* num_points = int(image_size[0] * image_size[1] * (reduction_percentage / 100))
NumPoints(reduction_percentage) ==
    TruncDiv(ImageSize * ImageSize * reduction_percentage, 100)

\* NextStage with the save moved up, right behind the loop
NextStage_SaveFirst(stage) ==
    CASE stage = "loop"   -> "save"
      [] stage = "save"   -> "blank"
      [] stage = "blank"  -> "rename"
      [] stage = "rename" -> "done"

\* the order of the parts of the call after the loop
NextStage(stage) ==
    CASE stage = "loop"   -> "blank"
      [] stage = "blank"  -> "rename"
      [] stage = "rename" -> "save"
      [] stage = "save"   -> "done"

Finish(stage) ==
    /\ stages' = stages \cup {stage}
    /\ pc' = NextStage(stage)

Raise(exc) ==
    /\ pc' = "raised"
    /\ error' = exc

PInit ==
    /\ font \in Fonts
    /\ cfg \in Configs
    /\ Len(font) > TestLimit => cfg \in LongConfigs
    /\ glyf = LoadedGlyf(font)
    /\ names = LoadedNames
    /\ pc = "load"
    /\ i = 1
    /\ image = WhiteImage
    /\ perforated_image = WhiteImage
    /\ sobol_points = {}
    /\ modified_glyphs = {}
    /\ progress = <<>>
    /\ output_writes = 0
    /\ error = "none"
    /\ stages = {}
    /\ rasterized = {}
    /\ removal = [n \in ReverseGlyphMap(font) |-> "none"]
    /\ returned = [n \in ReverseGlyphMap(font) |-> NoOutline]

\* Lines 78-123: TTFont(input_font_path) and ImageFont.truetype raise if the file
\* is missing or unreadable; otherwise the canvas is made and the loop is entered.
LoadFont ==
    /\ pc = "load"
    /\ UNCHANGED fvars
    /\ \/ /\ Raise("FileNotFoundError")
          /\ UNCHANGED <<stages>>
       \/ /\ pc' = "loop"
          /\ UNCHANGED <<error, stages>>
    /\ UNCHANGED <<cfg, font, glyf, names, i, image, perforated_image, sobol_points,
                   modified_glyphs, progress, output_writes, rasterized, removal,
                   returned>>

\* Lines 125-134: the head of a turn of the loop: the progress callback, then the
\* test that skips the glyph.
IterStart ==
    /\ pc = "loop"
    /\ UNCHANGED fvars
    /\ i <= total_glyphs
    /\ progress' = IF cfg.has_callback
                   THEN Append(progress, ProgressValue(i - 1, total_glyphs))
                   ELSE progress
    /\ IF glyph.name = ".notdef" \/ glyph.name \notin ReverseGlyphMap(font)
       THEN /\ i' = i + 1
            /\ pc' = "loop"
       ELSE /\ i' = i
            /\ pc' = "rasterize"
    /\ UNCHANGED <<cfg, font, glyf, names, image, perforated_image, sobol_points,
                   modified_glyphs, output_writes, error, stages, rasterized,
                   removal, returned>>

\* Lines 136-253: find the character, clear the canvas, draw the glyph.
Rasterize ==
    /\ pc = "rasterize"
    /\ UNCHANGED fvars
    /\ IF RasterError(glyph) # "none"
       THEN /\ Raise(RasterError(glyph))
            /\ image' = ClearCanvas(image)
            /\ UNCHANGED rasterized
       ELSE /\ image' = Rasterized(image, glyph)
            /\ rasterized' = rasterized \cup {glyph.name}
            /\ pc' = "points"
            /\ UNCHANGED error
    /\ UNCHANGED <<cfg, font, glyf, names, i, perforated_image, sobol_points,
                   modified_glyphs, progress, output_writes, stages, removal,
                   returned>>

\* Lines 255-259: the point set, whatever the dithering mode.
GeneratePoints ==
    /\ pc = "points"
    /\ UNCHANGED fvars
    /\ LET num_points == NumPoints(cfg.reduction_percentage)
       IN IF SobolError(num_points) # "none"
          THEN /\ Raise(SobolError(num_points))
               /\ UNCHANGED sobol_points
          ELSE /\ sobol_points' \in generate_sobol_sequence(ImageSize, ImageSize, num_points)
               /\ pc' = "dither"
               /\ UNCHANGED error
    /\ UNCHANGED <<cfg, font, glyf, names, i, image, perforated_image, modified_glyphs,
                   progress, output_writes, stages, rasterized, removal, returned>>

\* The removal operator line 262 chooses for a dithering mode
Operator(dithering_mode) == IF dithering_mode = "shape" THEN "shape" ELSE "point"

\* Lines 261-271.  The shape operator works on a copy; the point operator changes
\* the canvas itself and returns it.  sobol_points is not read again.
ApplyDithering ==
    /\ pc = "dither"
    /\ UNCHANGED fvars
    /\ IF Operator(cfg.dithering_mode) = "shape"
       THEN \E r \in apply_shape_dithering(image, cfg.shape_type, cfg.margin,
                                           cfg.shape_size, cfg.reduction_percentage) :
              IF r.error # "none"
              THEN /\ Raise(r.error)
                   /\ UNCHANGED <<image, perforated_image, removal>>
              ELSE /\ perforated_image' = r.image
                   /\ removal' = [removal EXCEPT ![glyph.name] = "shape"]
                   /\ pc' = "reconstruct"
                   /\ UNCHANGED <<image, error>>
       ELSE /\ image' = apply_blue_noise_dithering(image, sobol_points, cfg.point_size)
            /\ perforated_image' = image'
            /\ removal' = [removal EXCEPT ![glyph.name] = "point"]
            /\ pc' = "reconstruct"
            /\ UNCHANGED error
    /\ sobol_points' = {}
    /\ UNCHANGED <<cfg, font, glyf, names, i, modified_glyphs, progress, output_writes,
                   stages, rasterized, returned>>

\* Lines 273-295: image_to_glyph inside the try block of the loop.  An exception
\* that leaves image_to_glyph is swallowed and the glyph stays as it was.
Reconstruct ==
    /\ pc = "reconstruct"
    /\ UNCHANGED fvars
    /\ \E trace_ok \in TraceOutcomes(perforated_image, cfg.render_mode, cfg.num_levels) :
         LET r == image_to_glyph(perforated_image, glyf, glyph.name, cfg.render_mode,
                                 cfg.num_levels, trace_ok)
         IN IF r.error # "none"
            THEN UNCHANGED <<glyf, modified_glyphs, returned>>
            ELSE /\ glyf' = [glyf EXCEPT ![glyph.name] = r.glyph]
                 /\ modified_glyphs' = modified_glyphs \cup {glyph.name}
                 /\ returned' = [returned EXCEPT ![glyph.name] = r.glyph]
    /\ i' = i + 1
    /\ pc' = "loop"
    /\ UNCHANGED <<cfg, font, names, image, perforated_image, sobol_points, progress,
                   output_writes, error, stages, rasterized, removal>>

\* the loop has gone through `glyphs`
LoopEnd ==
    /\ pc = "loop"
    /\ UNCHANGED fvars
    /\ i > total_glyphs
    /\ Finish("loop")
    /\ UNCHANGED <<cfg, font, glyf, names, i, image, perforated_image, sobol_points,
                   modified_glyphs, progress, output_writes, error, rasterized,
                   removal, returned>>

\* BlankedNames going through `glyphs`, the list test mode cuts short
BlankedNames_LoopList(f, test) ==
    {Glyphs(f, test)[k].name : k \in 1 .. Len(Glyphs(f, test))}

\* the glyph names the post-pass goes through: list(font.getGlyphOrder())
BlankedNames(f, test) == ReverseGlyphMap(f)

\* Lines 297-300: every glyph of the font that is not in modified_glyphs gets
\* font["glyf"]["space"]; the first such glyph raises KeyError if the font has no
\* glyph of that name.
BlankUnmodified ==
    /\ pc = "blank"
    /\ UNCHANGED fvars
    /\ LET todo == BlankedNames(font, cfg.test) \ modified_glyphs
       IN IF todo # {} /\ "space" \notin DOMAIN glyf
          THEN /\ Raise("KeyError")
               /\ UNCHANGED <<glyf, stages>>
          ELSE /\ glyf' = [n \in DOMAIN glyf |-> IF n \in todo THEN glyf["space"] ELSE glyf[n]]
               /\ Finish("blank")
               /\ UNCHANGED error
    /\ UNCHANGED <<cfg, font, names, i, image, perforated_image, sobol_points,
                   modified_glyphs, progress, output_writes, rasterized, removal,
                   returned>>

\* Lines 302-341: the family and full names get the suffix.
RenameFont ==
    /\ pc = "rename"
    /\ UNCHANGED fvars
    /\ names' = [k \in 1 .. Len(names) |-> RewriteName(names[k])]
    /\ Finish("rename")
    /\ UNCHANGED <<cfg, font, glyf, i, image, perforated_image, sobol_points,
                   modified_glyphs, progress, output_writes, error, rasterized,
                   removal, returned>>

\* Lines 343-345: font.save(output_font_path) compiles the font in memory and then
\* writes the file; it raises if the path cannot be written, and no file is made.
SaveFont ==
    /\ pc = "save"
    /\ UNCHANGED fvars
    /\ \/ /\ Raise("OSError")
          /\ UNCHANGED <<output_writes, stages>>
       \/ /\ output_writes' = output_writes + 1
          /\ Finish("save")
          /\ UNCHANGED error
    /\ UNCHANGED <<cfg, font, glyf, names, i, image, perforated_image, sobol_points,
                   modified_glyphs, progress, rasterized, removal, returned>>

PNext ==
    \/ LoadFont
    \/ IterStart
    \/ Rasterize
    \/ GeneratePoints
    \/ ApplyDithering
    \/ Reconstruct
    \/ LoopEnd
    \/ BlankUnmodified
    \/ RenameFont
    \/ SaveFont

(***************************************************************************)
(* SpecSobol: one call generate_sobol_sequence(width, height, num_points). *)
(* sb.points is the array being built, already scaled and cut to integers. *)
(***************************************************************************)
SobolInit ==
    sb \in [pc : {"call"}, width : 0 .. MaxDim, height : 0 .. MaxDim,
            num_points : -1 .. MaxCount, points : {<<>>}, error : {"none"}]

\* qmc.scale raises ValueError unless the lower bounds are below the upper ones
ScaleError(width, height) == IF width > 0 /\ height > 0 THEN "none" ELSE "ValueError"

\* int(np.log2(num_points)) raises, or qmc.scale does
SobolRaise ==
    /\ sb.pc = "call"
    /\ \/ /\ SobolError(sb.num_points) # "none"
          /\ sb' = [sb EXCEPT !.pc = "raised", !.error = SobolError(sb.num_points)]
       \/ /\ SobolError(sb.num_points) = "none"
          /\ ScaleError(sb.width, sb.height) # "none"
          /\ sb' = [sb EXCEPT !.pc = "raised", !.error = ScaleError(sb.width, sb.height)]
    /\ UNCHANGED NotSobol

\* one more point of sampler.random_base2(m), scaled and cut to integers
SobolSample ==
    /\ sb.pc = "call"
    /\ SobolError(sb.num_points) = "none"
    /\ ScaleError(sb.width, sb.height) = "none"
    /\ Len(sb.points) < SobolCount(sb.num_points)
    /\ \E kx \in Samples, ky \in Samples :
         sb' = [sb EXCEPT !.points = Append(@, ScalePoint(kx, ky, sb.width, sb.height))]
    /\ UNCHANGED NotSobol

\* return points.astype(int)
SobolReturn ==
    /\ sb.pc = "call"
    /\ SobolError(sb.num_points) = "none"
    /\ ScaleError(sb.width, sb.height) = "none"
    /\ Len(sb.points) = SobolCount(sb.num_points)
    /\ sb' = [sb EXCEPT !.pc = "returned"]
    /\ UNCHANGED NotSobol

\* perforate_font is not running
PIdle ==
    /\ font = <<G(".notdef", NoCode, FALSE, FALSE)>>
    /\ cfg = Config(25, "blue_noise", "circle", SizeInt(10), 1, "original", 2, FALSE, FALSE)
    /\ glyf = LoadedGlyf(font)
    /\ names = LoadedNames
    /\ pc = "idle"
    /\ i = 1
    /\ image = WhiteImage
    /\ perforated_image = WhiteImage
    /\ sobol_points = {}
    /\ modified_glyphs = {}
    /\ progress = <<>>
    /\ output_writes = 0
    /\ error = "none"
    /\ stages = {}
    /\ rasterized = {}
    /\ removal = [n \in ReverseGlyphMap(font) |-> "none"]
    /\ returned = [n \in ReverseGlyphMap(font) |-> NoOutline]

SobolNext == SobolRaise \/ SobolSample \/ SobolReturn

InitSobol == PIdle /\ SobolInit /\ bn = Idle /\ sh = Idle /\ sm = Idle /\ ig = Idle /\ gui = Idle /\ rs = Idle /\ pw = Idle

SpecSobol == InitSobol /\ [][SobolNext]_vars

(***************************************************************************)
(* SpecPoint: one call apply_blue_noise_dithering(image, sobol_points,     *)
(* point_size).  bn.image is the bitmap, changed in place; bn.input keeps  *)
(* what it was at the call; bn.k is the row of sobol_points the loop is at. *)
(***************************************************************************)
PointPixels == (0 .. PointCanvas - 1) \X (0 .. PointCanvas - 1)

\* bitmaps with the columns left of c in ink: all background up to all ink
PointImages ==
    {[p \in PointPixels |-> IF p[1] < c THEN Ink ELSE Background] : c \in 0 .. PointCanvas}

\* arrays of integer points inside the bitmap, rows may repeat
PointArrays == UNION {[1 .. n -> PointPixels] : n \in 0 .. MaxPoints}

PointInit ==
    \E img \in PointImages, pts \in PointArrays, size \in 1 .. MaxPointSize :
        bn = [pc |-> "loop", input |-> img, image |-> img, sobol_points |-> pts,
              point_size |-> size, k |-> 1]

\* one turn of `for point_x, point_y in sobol_points`
PointPaint ==
    /\ bn.pc = "loop"
    /\ bn.k <= Len(bn.sobol_points)
    /\ LET square == SquareOn(PointPixels, bn.sobol_points[bn.k], bn.point_size)
       IN bn' = [bn EXCEPT !.k = @ + 1,
                           !.image = [p \in PointPixels |->
                                         IF p \in square THEN Background ELSE @[p]]]
    /\ UNCHANGED NotPoint

\* return image
PointReturn ==
    /\ bn.pc = "loop"
    /\ bn.k > Len(bn.sobol_points)
    /\ bn' = [bn EXCEPT !.pc = "returned"]
    /\ UNCHANGED NotPoint

PointNext == PointPaint \/ PointReturn

InitPoint == PIdle /\ sb = Idle /\ PointInit /\ sh = Idle /\ sm = Idle /\ ig = Idle /\ gui = Idle /\ rs = Idle /\ pw = Idle

SpecPoint == InitPoint /\ [][PointNext]_vars

(***************************************************************************)
(* SpecShape: one call apply_shape_dithering(image, shape_type, margin,    *)
(* shape_size, reduction_percentage).  sh.input is the image given,        *)
(* sh.image the copy the shapes are drawn on, sh.seen the candidate        *)
(* centres the loop has gone through, sh.todo how many are still to come.  *)
(***************************************************************************)
ShapeCanvasPixels == (0 .. ShapeCanvas - 1) \X (0 .. ShapeCanvas - 1)

\* all ink, or all ink but one column of grey (the value of Threshold) or of
\* background, or all background (the bitmap of a glyph without ink)
ShapeImages ==
    {[p \in ShapeCanvasPixels |-> IF p[1] = ShapeCanvas \div 2 THEN v ELSE Ink] :
        v \in {Ink, Threshold, Background}}
    \cup {[p \in ShapeCanvasPixels |-> Background]}

\* percentages that ask for one and for two shapes on these bitmaps
ShapePercentages == {3, 6}

ShapeInit ==
    \E img \in ShapeImages,
       t \in {"circle", "rectangle", "triangle"},
       m \in 0 .. MaxMargin,
       z \in {SizeInt(n) : n \in 1 .. MaxShapeSize}
               \cup {SizeStr("random"), SizeStr("biggest"), SizeStr("huge")},
       pct \in ShapePercentages :
        sh = [pc |-> "call", input |-> img, image |-> img, shape_type |-> t,
              margin |-> m, shape_size |-> z, reduction_percentage |-> pct,
              placed |-> <<>>, error |-> "none", seen |-> {}, todo |-> 0]

\* the argument checks raise ValueError
ShapeRaise ==
    /\ sh.pc = "call"
    /\ ShapeArgError(sh.shape_type, sh.shape_size) # "none"
    /\ sh' = [sh EXCEPT !.pc = "raised",
                        !.error = ShapeArgError(sh.shape_type, sh.shape_size)]
    /\ UNCHANGED NotShape

\* the image is copied, the black pixels are found, counted and shuffled
ShapeStart ==
    /\ sh.pc = "call"
    /\ ShapeArgError(sh.shape_type, sh.shape_size) = "none"
    /\ sh' = [sh EXCEPT !.pc = "loop",
                        !.todo = SliceLen(Cardinality(BlackPixels(sh.input)),
                                          NumShapes(sh.input, sh.reduction_percentage))]
    /\ UNCHANGED NotShape

\* one turn of `for x, y in black_pixels[:num_shapes]`: the shuffle can have
\* put any black pixel not yet seen at this place
ShapeStep ==
    /\ sh.pc = "loop"
    /\ sh.todo > 0
    /\ \E c \in BlackPixels(sh.input) \ sh.seen :
         LET st == ShapeTurn(sh, c, sh.shape_type, sh.margin)
         IN sh' = [st EXCEPT !.pc = IF st.error = "none" THEN "loop" ELSE "raised",
                             !.seen = @ \cup {c},
                             !.todo = @ - 1]
    /\ UNCHANGED NotShape

\* return result
ShapeReturn ==
    /\ sh.pc = "loop"
    /\ sh.todo = 0
    /\ sh' = [sh EXCEPT !.pc = "returned"]
    /\ UNCHANGED NotShape

ShapeNext == ShapeRaise \/ ShapeStart \/ ShapeStep \/ ShapeReturn

InitShape == PIdle /\ sb = Idle /\ bn = Idle /\ ShapeInit /\ sm = Idle /\ ig = Idle /\ gui = Idle /\ rs = Idle /\ pw = Idle

SpecShape == InitShape /\ [][ShapeNext]_vars

(***************************************************************************)
(* SpecSimplify: one call simplify_image(image, num_levels) on a bitmap of *)
(* one row.  sm.levels is the array `levels`, sm.image the bitmap returned. *)
(***************************************************************************)
SimplifyPixels == (0 .. SimplifyWidth - 1) \X {0}

\* intensities at and next to the levels of small tables
Greys == {0, 84, 85, 200, 255}

SimplifyInit ==
    \E img \in [SimplifyPixels -> Greys], n \in 0 .. 257 :
        sm = [pc |-> "call", input |-> img, image |-> img, num_levels |-> n,
              levels |-> {}, error |-> "none"]

\* if not 2 <= num_levels <= 256: raise ValueError
SimplifyRaise ==
    /\ sm.pc = "call"
    /\ SimplifyError(sm.num_levels) # "none"
    /\ sm' = [sm EXCEPT !.pc = "raised", !.error = SimplifyError(sm.num_levels)]
    /\ UNCHANGED NotSimplify

\* step and levels are computed
SimplifyLevels ==
    /\ sm.pc = "call"
    /\ SimplifyError(sm.num_levels) = "none"
    /\ sm' = [sm EXCEPT !.pc = "quantize", !.levels = Levels(sm.num_levels)]
    /\ UNCHANGED NotSimplify

\* the bitmap is quantized and returned as a new image
SimplifyReturn ==
    /\ sm.pc = "quantize"
    /\ sm' = [sm EXCEPT !.pc = "returned",
                        !.image = simplify_image(sm.input, sm.num_levels)]
    /\ UNCHANGED NotSimplify

SimplifyNext == SimplifyRaise \/ SimplifyLevels \/ SimplifyReturn

InitSimplify == PIdle /\ sb = Idle /\ bn = Idle /\ sh = Idle /\ SimplifyInit /\ ig = Idle /\ gui = Idle /\ rs = Idle /\ pw = Idle

SpecSimplify == InitSimplify /\ [][SimplifyNext]_vars

(***************************************************************************)
(* SpecGlyph: one call image_to_glyph(image, scale_factor, font, with_bug,  *)
(* render_mode, num_levels), step by step.  The tracer and the pen are     *)
(* collaborators: what they give is a choice among PenGlyphs.  Of the      *)
(* outline the model keeps the number of contours, the number of points    *)
(* and the coordinates of its first points.                                *)
(***************************************************************************)
\* a scale_factor argument: the string "AUTO", or a number
ScaleAuto == [auto |-> TRUE, value |-> 0]
ScaleNumber(n) == [auto |-> FALSE, value |-> n]

\* scale factors as fractions
Fraction(num, den) == [num |-> num, den |-> den]

\* font['head'].unitsPerEm and font['hhea'].ascender of the fonts tried
UnitsPerEm == {1000}
Ascenders == {800}

\* "AUTO": units_per_em / img.shape[0]; a number: float(scale_factor)
FinalScaleFactor(scale_factor, units_per_em) ==
    IF scale_factor.auto THEN Fraction(units_per_em, CanvasHeight)
    ELSE Fraction(scale_factor.value, 1)

\* int(x * final_scale_factor)
ScaleX(x, s) == TruncDiv(x * s.num, s.den)

\* int(y * -final_scale_factor + ascender)
ScaleY(y, s, ascender) == TruncDiv(ascender * s.den - y * s.num, s.den)

\* The loop over range(len(glyph.coordinates)), from entry k on.  It writes the
\* list in place; with_bug reads entry -i, which a turn before may have written.
RECURSIVE ScaleFrom(_, _, _, _, _)
ScaleFrom(coords, k, s, ascender, with_bug) ==
    IF k > Len(coords) THEN coords
    ELSE LET src == IF k = 1 THEN 1 ELSE Len(coords) - k + 2
             new == IF ~with_bug
                    THEN <<ScaleX(coords[k][1], s), ScaleY(coords[k][2], s, ascender)>>
                    ELSE <<ScaleX(coords[src][2], s), ScaleX(coords[src][1], s)>>
         IN ScaleFrom([coords EXCEPT ![k] = new], k + 1, s, ascender, with_bug)

\* the numbers of contours and points an outline can come with
OutlineSizes ==
    {<<1, 4>>, <<1, ContourLimit + 1>>, <<ContourLimit + 1, ContourLimit + 1>>}

PenPoints == (0 .. MaxCoordinate) \X (0 .. MaxCoordinate)

\* What pen.glyph() can give: nothing drawn, or an outline.
PenGlyphs ==
    {[contours |-> 0, points |-> 0, coordinates |-> <<>>]}
    \cup {[contours |-> z[1], points |-> z[2], coordinates |-> c] :
            z \in OutlineSizes,
            c \in UNION {[1 .. n -> PenPoints] : n \in 1 .. MaxOutline}}

NoGlyph == [kind |-> "none"]

GlyphInit ==
    \E r \in {"original", "simplified", "optimized", "optimized_masked"},
       n \in {1, 2},
       space \in BOOLEAN,
       f \in {ScaleAuto, ScaleNumber(2)},
       bug \in BOOLEAN,
       upm \in UnitsPerEm,
       asc \in Ascenders :
        ig = [pc |-> "call", render_mode |-> r, num_levels |-> n, has_space |-> space,
              scale_factor |-> f, with_bug |-> bug, units_per_em |-> upm,
              ascender |-> asc, pen |-> NoGlyph, glyph |-> NoGlyph, error |-> "none"]

\* Lines 141-196, before the try block: in simplified mode simplify_image is
\* called, and its ValueError leaves image_to_glyph.
GlyphSimplify ==
    /\ ig.pc = "call"
    /\ IF ig.render_mode = "simplified" /\ SimplifyError(ig.num_levels) # "none"
       THEN ig' = [ig EXCEPT !.pc = "raised", !.error = SimplifyError(ig.num_levels)]
       ELSE ig' = [ig EXCEPT !.pc = "trace"]
    /\ UNCHANGED NotGlyph

\* Lines 198-420: the bitmap is traced and the path drawn into the pen.  The
\* tracer or the pen may throw; the optimized modes throw on a trace without
\* points.
GlyphTrace ==
    /\ ig.pc = "trace"
    /\ \/ ig' = [ig EXCEPT !.pc = "except"]
       \/ \E g \in PenGlyphs :
            IF IsOptimized(ig.render_mode) /\ g.points = 0
            THEN ig' = [ig EXCEPT !.pc = "except"]
            ELSE ig' = [ig EXCEPT !.pc = "limit", !.pen = g]
    /\ UNCHANGED NotGlyph

\* Lines 422-424: if len(glyph.endPtsOfContours) > 65535: raise ValueError
GlyphLimit ==
    /\ ig.pc = "limit"
    /\ IF ig.pen.contours > ContourLimit
       THEN ig' = [ig EXCEPT !.pc = "except"]
       ELSE ig' = [ig EXCEPT !.pc = "scale"]
    /\ UNCHANGED NotGlyph

\* Lines 431-468: the coordinates are scaled and the glyph is returned
GlyphScale ==
    /\ ig.pc = "scale"
    /\ LET s == FinalScaleFactor(ig.scale_factor, ig.units_per_em)
       IN ig' = [ig EXCEPT !.pc = "returned",
                           !.glyph = [kind |-> "traced",
                                      contours |-> ig.pen.contours,
                                      points |-> ig.pen.points,
                                      coordinates |-> ScaleFrom(ig.pen.coordinates, 1, s,
                                                                ig.ascender, ig.with_bug)]]
    /\ UNCHANGED NotGlyph

\* Lines 469-473: except Exception: return font["glyf"]["space"]
GlyphExcept ==
    /\ ig.pc = "except"
    /\ IF ig.has_space
       THEN ig' = [ig EXCEPT !.pc = "returned", !.glyph = [kind |-> "space"]]
       ELSE ig' = [ig EXCEPT !.pc = "raised", !.error = "KeyError"]
    /\ UNCHANGED NotGlyph

GlyphNext == GlyphSimplify \/ GlyphTrace \/ GlyphLimit \/ GlyphScale \/ GlyphExcept

InitGlyph == PIdle /\ sb = Idle /\ bn = Idle /\ sh = Idle /\ sm = Idle /\ GlyphInit /\ gui = Idle /\ rs = Idle /\ pw = Idle

SpecGlyph == InitGlyph /\ [][GlyphNext]_vars

(***************************************************************************)
(* The desktop window (src/app/main.py): MainWindow on the GUI thread, the *)
(* FontProcessingThread workers it starts, and the signals the workers     *)
(* emit, which reach their slots through the event queue of the GUI thread.*)
(***************************************************************************)
\* the parameters of perforate_font
Parameters ==
    {"input_font_path", "output_font_path", "reduction_percentage", "point_size",
     "with_bug", "draw_images", "scale_factor", "test", "debug",
     "progress_callback", "dithering_mode", "render_mode", "num_levels",
     "debug_dir", "shape_type", "shape_size", "margin"}

\* MainWindow.get_options with the widgets at their initial values, but for the
\* dithering mode
get_options(dither_mode) ==
    [dithering_mode |-> dither_mode, render_mode |-> "original",
     reduction_percentage |-> "40", point_size |-> "1", shape_type |-> "circle",
     shape_size |-> "10", margin |-> "1", line_type |-> "parallel",
     curve_type |-> "straight", line_width |-> "1", curve |-> "0",
     num_random_lines |-> "10", scale_factor |-> "AUTO", test |-> "False",
     debug |-> "False", debug_dir |-> "None", num_levels |-> "2",
     draw_images |-> "False"]

\* the texts of the path fields: empty, a font that can be read, a path with no file
InputTexts == {"", "font.ttf", "missing.ttf"}
OutputTexts == {"", "out.ttf"}
DitherModes == {"blue_noise", "line"}

\* How perforate_font(input_font_path=..., output_font_path=...,
\* progress_callback=..., **options) can end: a keyword that is no parameter is a
\* TypeError of the call itself; TTFont raises for a missing file; otherwise the
\* call returns or raises.
CallOutcomes(input_path, options) ==
    IF ~(DOMAIN options \subseteq Parameters) THEN {"TypeError"}
    ELSE IF input_path # "font.ttf" THEN {"FileNotFoundError"}
    ELSE {"returned", "ValueError"}

Signal(thread, name, value) == [thread |-> thread, name |-> name, value |-> value]

\* FontProcessingThread.run after the call ended with `outcome`
RunSignals(thread, outcome) ==
    IF outcome = "returned"
    THEN <<Signal(thread, "progress", "100"), Signal(thread, "finished", "")>>
    ELSE <<Signal(thread, "error", outcome)>>

\* MainWindow.start_conversion
start_conversion(g) ==
    IF g.input_path = "" \/ g.output_path = "" THEN g
    ELSE [g EXCEPT !.timer = FALSE, !.label_visible = FALSE,
                   !.convert_enabled = FALSE,
                   !.progress_visible = TRUE, !.progress_bar = "0",
                   !.threads = Append(g.threads,
                                      [pc |-> "running", input_path |-> g.input_path,
                                       output_path |-> g.output_path,
                                       options |-> get_options(g.dither_mode),
                                       outcome |-> "none"]),
                   !.processing_thread = Len(g.threads) + 1]

\* MainWindow.update_progress
update_progress(g, value) == [g EXCEPT !.progress_bar = value]

\* MainWindow.conversion_finished, with show_completion_message
conversion_finished(g) ==
    [g EXCEPT !.convert_enabled = TRUE, !.progress_visible = FALSE,
              !.label = "completed", !.label_visible = TRUE, !.timer = TRUE,
              !.processing_thread = 0]

\* MainWindow.handle_error
handle_error(g, error_message) ==
    [g EXCEPT !.convert_enabled = TRUE, !.progress_visible = FALSE,
              !.label = error_message, !.label_visible = TRUE, !.timer = TRUE,
              !.processing_thread = 0]

\* MainWindow.__init__
GuiInit ==
    gui = [pc |-> "shown", input_path |-> "", output_path |-> "",
           dither_mode |-> "blue_noise", convert_enabled |-> TRUE,
           progress_visible |-> FALSE, progress_bar |-> "0",
           label |-> "", label_visible |-> FALSE, timer |-> FALSE,
           processing_thread |-> 0, threads |-> <<>>, events |-> <<>>]

\* the user edits a path field or picks a file in a dialog
EditInput ==
    /\ gui.pc = "shown"
    /\ \E text \in InputTexts : gui' = [gui EXCEPT !.input_path = text]
    /\ gui' # gui
    /\ UNCHANGED NotGui

EditOutput ==
    /\ gui.pc = "shown"
    /\ \E text \in OutputTexts : gui' = [gui EXCEPT !.output_path = text]
    /\ gui' # gui
    /\ UNCHANGED NotGui

\* the user picks a dithering mode; update_dithering_options only shows and hides
ChooseMode ==
    /\ gui.pc = "shown"
    /\ \E mode \in DitherModes : gui' = [gui EXCEPT !.dither_mode = mode]
    /\ gui' # gui
    /\ UNCHANGED NotGui

\* convert_button.clicked: a disabled button is not clicked
ClickConvert ==
    /\ gui.pc = "shown"
    /\ gui.convert_enabled
    /\ Len(gui.threads) < MaxThreads
    /\ gui' = start_conversion(gui)
    /\ UNCHANGED NotGui

\* returnPressed of input_path or of output_path
ReturnPressed ==
    /\ gui.pc = "shown"
    /\ Len(gui.threads) < MaxThreads
    /\ gui' = start_conversion(gui)
    /\ UNCHANGED NotGui

\* FontProcessingThread.run of one started thread
WorkerRun ==
    /\ gui.pc = "shown"
    /\ \E t \in 1 .. Len(gui.threads) :
         /\ gui.threads[t].pc = "running"
         /\ \E outcome \in CallOutcomes(gui.threads[t].input_path,
                                        gui.threads[t].options) :
              gui' = [gui EXCEPT !.threads[t].pc = "ended",
                                 !.threads[t].outcome = outcome,
                                 !.events = gui.events \o RunSignals(t, outcome)]
    /\ UNCHANGED NotGui

\* the GUI thread takes the oldest signal and runs the slot connected to it
Deliver ==
    /\ gui.pc = "shown"
    /\ gui.events # <<>>
    /\ LET e == Head(gui.events)
           g == [gui EXCEPT !.events = Tail(gui.events)]
       IN gui' = IF e.name = "progress" THEN update_progress(g, e.value)
                 ELSE IF e.name = "finished" THEN conversion_finished(g)
                 ELSE handle_error(g, e.value)
    /\ UNCHANGED NotGui

\* message_timer.timeout: hide_completion_message
TimerTimeout ==
    /\ gui.pc = "shown"
    /\ gui.timer
    /\ gui' = [gui EXCEPT !.timer = FALSE, !.label_visible = FALSE]
    /\ UNCHANGED NotGui

GuiNext ==
    \/ EditInput \/ EditOutput \/ ChooseMode \/ ClickConvert \/ ReturnPressed
    \/ WorkerRun \/ Deliver \/ TimerTimeout

InitGui == PIdle /\ sb = Idle /\ bn = Idle /\ sh = Idle /\ sm = Idle /\ ig = Idle /\ GuiInit /\ rs = Idle /\ pw = Idle

SpecGui == InitGui /\ [][GuiNext]_vars

(***************************************************************************)
(* The drawing of one glyph (fonts.py:156-253), for glyphs of every kind:  *)
(* Latin and Cyrillic codepoints, names in and out of the special-case     *)
(* table, simple and composite.                                            *)
(***************************************************************************)
\* glyph names: plain, in cyrillic_special_cases (twice), and a Cyrillic name
\* that is not in the table
RasterNames == {"A", "uni041D", "uni0419", "uni0410"}

\* codepoints: none, Latin A, Cyrillic with an analogue (U+0410, U+0418),
\* Cyrillic without one (U+041D, U+0419)
RasterCodes == {NoCode, 65, 1040, 1048, 1053, 1049}

RasterGlyphs ==
    {G(n, c, composite, flat) :
        n \in RasterNames, c \in RasterCodes, composite \in BOOLEAN, flat \in BOOLEAN}

\* the canvas as an earlier glyph left it
RasterCanvases == {WhiteImage, DrawText(WhiteImage, 65), DrawPen(WhiteImage)}

RasterInit ==
    \E g \in RasterGlyphs, img \in RasterCanvases :
        rs = [pc |-> "clear", glyph |-> g, image |-> img, drawn |-> "nothing",
              char |-> NoCode, error |-> "none"]

\* line 157
RasterClear ==
    /\ rs.pc = "clear"
    /\ rs' = [rs EXCEPT !.pc = "draw", !.image = ClearCanvas(rs.image)]
    /\ UNCHANGED NotRaster

\* lines 159-163: draw.text of the glyph's own character
RasterDirect ==
    /\ rs.pc = "draw"
    /\ RasterBranch(rs.glyph) = "direct"
    /\ rs' = [rs EXCEPT !.pc = "drawn", !.drawn = "text", !.char = rs.glyph.code,
                        !.image = DrawText(rs.image, rs.glyph.code)]
    /\ UNCHANGED NotRaster

\* lines 166-171: draw.text of the substitute the special-case table names
RasterSpecial ==
    /\ rs.pc = "draw"
    /\ RasterBranch(rs.glyph) = "special"
    /\ rs' = [rs EXCEPT !.pc = "drawn", !.drawn = "substitute",
                        !.char = cyrillic_special_cases[rs.glyph.name],
                        !.image = DrawText(rs.image, cyrillic_special_cases[rs.glyph.name])]
    /\ UNCHANGED NotRaster

\* lines 172-185: draw.text of the Latin analogue
RasterAnalogue ==
    /\ rs.pc = "draw"
    /\ RasterBranch(rs.glyph) = "analogue"
    /\ rs' = [rs EXCEPT !.pc = "drawn", !.drawn = "analogue",
                        !.char = cyrillic_to_latin[rs.glyph.code],
                        !.image = DrawText(rs.image, cyrillic_to_latin[rs.glyph.code])]
    /\ UNCHANGED NotRaster

\* lines 186-253: decompose_glyph and, if it gave a pen, the points of the pen
RasterDecompose ==
    /\ rs.pc = "draw"
    /\ RasterBranch(rs.glyph) = "decompose"
    /\ rs' = IF RasterError(rs.glyph) # "none"
             THEN [rs EXCEPT !.pc = "raised", !.drawn = "outline",
                             !.error = RasterError(rs.glyph)]
             ELSE [rs EXCEPT !.pc = "drawn", !.drawn = "outline",
                             !.image = IF rs.glyph.composite THEN DrawPen(rs.image)
                                       ELSE rs.image]
    /\ UNCHANGED NotRaster

RasterNext ==
    RasterClear \/ RasterDirect \/ RasterSpecial \/ RasterAnalogue \/ RasterDecompose

InitRaster ==
    PIdle /\ sb = Idle /\ bn = Idle /\ sh = Idle /\ sm = Idle /\ ig = Idle /\ gui = Idle
          /\ RasterInit /\ pw = Idle

SpecRaster == InitRaster /\ [][RasterNext]_vars

(***************************************************************************)
(* The ordering of the centroids into one pen path in the optimized modes  *)
(* of image_to_glyph (glyphs.py:312-401).  Centroids are pixels; the mask  *)
(* is the set of its pixels that are 1.                                    *)
(***************************************************************************)
WalkPixels == (0 .. WalkCanvas - 1) \X (0 .. WalkCanvas - 1)

\* the square of np.linalg.norm(a - b)
Dist2(a, b) == (a[1] - b[1]) * (a[1] - b[1]) + (a[2] - b[2]) * (a[2] - b[2])

\* not (dist > max_distance), max_distance = sqrt(h^2 + w^2) * 0.2, on the
\* squares of both sides times 25
WithinReach(a, b) == 25 * Dist2(a, b) <= 2 * WalkCanvas * WalkCanvas

Abs(n) == IF n < 0 THEN -n ELSE n

\* cv2.line(line_mask, a, b, 1, 1): the pixels of the segment that are on the
\* canvas.  For a horizontal, a vertical and a diagonal segment these are the
\* pixels every line algorithm gives.
LinePixels(a, b) ==
    LET n == Max(Abs(b[1] - a[1]), Abs(b[2] - a[2]))
        Round(num, den) == (2 * num + den) \div (2 * den)
    IN IF n = 0 THEN {a} \cap WalkPixels
       ELSE {<<a[1] + Round(t * (b[1] - a[1]) + n * n, n) - n,
               a[2] + Round(t * (b[2] - a[2]) + n * n, n) - n>> : t \in 0 .. n}
            \cap WalkPixels

\* not np.any(np.logical_and(line_mask == 1, mask == 0))
LineInside(a, b, mask) == LinePixels(a, b) \subseteq mask

\* ArgMin taking the candidate that is farthest away
ArgMin_Farthest(centroids, current, live) ==
    CHOOSE j \in live :
        \A k \in live : \/ Dist2(centroids[j], current) > Dist2(centroids[k], current)
                        \/ /\ Dist2(centroids[j], current) = Dist2(centroids[k], current)
                           /\ j <= k

\* np.argmin(dists) with the entries outside `live` set to inf: the first index
\* of least distance
ArgMin(centroids, current, live) ==
    CHOOSE j \in live :
        \A k \in live : \/ Dist2(centroids[j], current) < Dist2(centroids[k], current)
                        \/ /\ Dist2(centroids[j], current) = Dist2(centroids[k], current)
                           /\ j <= k

RECURSIVE ValidNext(_, _, _, _)
\* The inner loop, lines 335-361: the nearest candidate is taken if it is
\* within reach and the segment to it stays on the mask, and set to inf
\* otherwise; 0 if every candidate was set to inf.
ValidNext(centroids, current, live, mask) ==
    IF live = {} THEN 0
    ELSE LET next_idx == ArgMin(centroids, current, live)
         IN IF ~WithinReach(current, centroids[next_idx])
               \/ ~LineInside(current, centroids[next_idx], mask)
            THEN ValidNext(centroids, current, live \ {next_idx}, mask)
            ELSE next_idx

\* RestartIndex finding no centroid to restart from
RestartIndex_None(visited, n) == 0

\* np.where(~visited)[0][0]: the first unvisited index, 0 if there is none
RestartIndex(visited, n) ==
    IF (1 .. n) \ visited = {} THEN 0
    ELSE CHOOSE j \in (1 .. n) \ visited : \A k \in (1 .. n) \ visited : j <= k

PenCommand(cmd, pt) == [cmd |-> cmd, pt |-> pt]

\* pen.moveTo(first), pen.lineTo(each other), pen.closePath(): lines 380-383 and
\* 398-401.  closePath is recorded with the point the contour returns to.
DrawPath(centroids, path_order) ==
    <<PenCommand("moveTo", centroids[path_order[1]])>>
    \o [k \in 1 .. Len(path_order) - 1 |->
            PenCommand("lineTo", centroids[path_order[k + 1]])]
    \o <<PenCommand("closePath", centroids[path_order[1]])>>

\* where centroids lie: three on a row, one above the middle, one far away
Sites == {<<0, 0>>, <<2, 0>>, <<4, 0>>, <<2, 2>>, <<7, 7>>}

\* coverage masks: everything, everything but the pixel between the first two
\* sites, the bottom row only, nothing
Masks ==
    {WalkPixels, WalkPixels \ {<<1, 0>>}, {p \in WalkPixels : p[2] = 0}, {}}

PathInit ==
    \E n \in 1 .. MaxCentroids :
      \E centroids \in Arrangements(Sites, n), mask \in Masks,
         mode \in {"optimized", "optimized_masked"} :
        pw = [pc |-> "walk", render_mode |-> mode, centroids |-> centroids,
              mask |-> mask, visited |-> {1}, path_order |-> <<1>>,
              restarts |-> {}, broken |-> FALSE, pen |-> <<>>]

\* one turn of `for _ in range(1, len(centroids))`, lines 389-395
OptimizedStep ==
    /\ pw.pc = "walk"
    /\ pw.render_mode = "optimized"
    /\ Len(pw.path_order) < Len(pw.centroids)
    /\ LET last     == pw.centroids[pw.path_order[Len(pw.path_order)]]
           next_idx == ArgMin(pw.centroids, last,
                              (1 .. Len(pw.centroids)) \ pw.visited)
       IN pw' = [pw EXCEPT !.path_order = Append(@, next_idx),
                           !.visited = @ \cup {next_idx}]
    /\ UNCHANGED NotPath

\* one turn of `while not np.all(visited)`, lines 326-373; `restarts` keeps the
\* places of path_order that were filled by line 370
MaskedStep ==
    /\ pw.pc = "walk"
    /\ pw.render_mode = "optimized_masked"
    /\ ~pw.broken
    /\ pw.visited # 1 .. Len(pw.centroids)
    /\ LET n        == Len(pw.centroids)
           current  == pw.centroids[pw.path_order[Len(pw.path_order)]]
           next_idx == ValidNext(pw.centroids, current, (1 .. n) \ pw.visited, pw.mask)
           restart  == RestartIndex(pw.visited, n)
       IN pw' = IF next_idx # 0
                THEN [pw EXCEPT !.path_order = Append(@, next_idx),
                                !.visited = @ \cup {next_idx}]
                ELSE IF restart # 0
                THEN [pw EXCEPT !.path_order = Append(@, restart),
                                !.visited = @ \cup {restart},
                                !.restarts = @ \cup {Len(pw.path_order) + 1}]
                ELSE [pw EXCEPT !.broken = TRUE]
    /\ UNCHANGED NotPath

\* the loop is over: ordered_centroids = centroids[path_order] goes to the pen
PathDraw ==
    /\ pw.pc = "walk"
    /\ IF pw.render_mode = "optimized"
       THEN Len(pw.path_order) = Len(pw.centroids)
       ELSE pw.broken \/ pw.visited = 1 .. Len(pw.centroids)
    /\ pw' = [pw EXCEPT !.pc = "drawn", !.pen = DrawPath(pw.centroids, pw.path_order)]
    /\ UNCHANGED NotPath

PathNext == OptimizedStep \/ MaskedStep \/ PathDraw

InitPath ==
    PIdle /\ sb = Idle /\ bn = Idle /\ sh = Idle /\ sm = Idle /\ ig = Idle /\ gui = Idle
          /\ rs = Idle /\ PathInit

SpecPath == InitPath /\ [][PathNext]_vars

\* the walk goes on while a step of it can be taken
SpecPathFair == SpecPath /\ WF_vars(PathNext)

Init == PInit /\ sb = Idle /\ bn = Idle /\ sh = Idle /\ sm = Idle /\ ig = Idle /\ gui = Idle /\ rs = Idle /\ pw = Idle

Next == PNext

Spec == Init /\ [][Next]_vars

(***************************************************************************)
(* Properties of perforate_font, checked under Spec.                       *)
(***************************************************************************)
\* C1: when perforate_font has returned normally, the glyph table has exactly the
\* names of the glyph order, and each name maps to the outline image_to_glyph
\* returned for that glyph or to the outline of the glyph "space".
C1_EveryGlyphHasOutline ==
    pc = "done" =>
        /\ DOMAIN glyf = {font[k].name : k \in 1 .. Len(font)}
        /\ \A n \in DOMAIN glyf :
             \/ n \in modified_glyphs /\ returned[n] # NoOutline /\ glyf[n] = returned[n]
             \/ "space" \in DOMAIN glyf /\ glyf[n] = glyf["space"]

\* a test-mode run on a font of 21 glyphs: "space" is the 20th and was rebuilt,
\* "A" is the 21st, was never drawn and ends with the outline of "space"
C1_Witness ==
    /\ pc = "done" /\ cfg.test /\ Len(font) > TestLimit
    /\ font[Len(font)].name = "A" /\ "A" \notin rasterized
    /\ "space" \in modified_glyphs /\ glyf["space"] = returned["space"]
    /\ glyf["A"] = glyf["space"]

\* C2: perforate_font raises only when loading fails or after the loop: no
\* exception raised while a glyph is processed leaves the loop.
C2_GlyphExceptionsCaught ==
    pc = "raised" => (error = "FileNotFoundError" \/ "loop" \in stages)

\* C3: for a font without a glyph named "space" the post-pass does not fail:
\* after the loop only the save can end the call with an exception.
C3_MissingSpaceSynthesized ==
    ("space" \notin ReverseGlyphMap(font) /\ pc = "raised" /\ "loop" \in stages)
        => error = "OSError"

\* C4: under an invalid configuration no progress callback fires, no entry of the
\* glyph table is written, no output file is written and the call does not
\* return normally.
C4_InvalidConfigRejected ==
    LET valid ==
            /\ 0 <= cfg.reduction_percentage /\ cfg.reduction_percentage <= 100
            /\ cfg.dithering_mode \in {"blue_noise", "shape", "line"}
            /\ cfg.render_mode \in
                   {"original", "simplified", "optimized", "optimized_masked"}
            /\ cfg.shape_type \in {"circle", "rectangle"}
    IN  ~valid =>
            /\ progress = <<>>
            /\ glyf = LoadedGlyf(font)
            /\ output_writes = 0
            /\ pc # "done"

\* C5: the output file is written at most once, only when the loop, the
\* post-pass and the name rewrite have all run to their end, exactly once by the
\* time the call has returned, and never in a call that ended with an exception.
C5_SavedOnceAtEnd ==
    /\ output_writes <= 1
    /\ output_writes = 1 => pc = "done" /\ {"loop", "blank", "rename"} \subseteq stages
    /\ pc = "done" => output_writes = 1
    /\ pc = "raised" => output_writes = 0

C5_Witness ==
    /\ pc = "done" /\ output_writes = 1
    /\ stages = {"loop", "blank", "rename", "save"}
    /\ modified_glyphs # {}

\* C6 as amended: progress_callback is called once at the head of each turn of
\* the loop, before that glyph is drawn, with floor(100 * k / total) for the
\* number k of glyphs gone through before it; so it is never called with 100,
\* and never after the loop.
C6_ProgressBeforeEachGlyph ==
    IF ~cfg.has_callback THEN progress = <<>>
    ELSE /\ Len(progress) <= total_glyphs
         /\ \A k \in 1 .. Len(progress) :
              progress[k] = (100 * (k - 1)) \div total_glyphs /\ progress[k] < 100
         /\ \A k \in 1 .. total_glyphs :
              font[k].name \in rasterized => Len(progress) >= k
         /\ pc = "loop" => Len(progress) = i - 1
         /\ pc \in {"rasterize", "points", "dither", "reconstruct"} => Len(progress) = i
         /\ "loop" \in stages => Len(progress) = total_glyphs

\* a finished call on a font of two glyphs: the callback got 0 and 50
C6_Witness ==
    /\ cfg.has_callback /\ pc = "done"
    /\ progress = <<0, 50>>
    /\ rasterized # {}

\* C6 as stated: when the font is about to be saved the last value the
\* callback received is 100.
C6_FinalHundredBeforeSave ==
    (cfg.has_callback /\ pc = "save") =>
        (progress # <<>> /\ progress[Len(progress)] = 100)

\* C7: a glyph that is ".notdef" or has no codepoint in the cmap is never drawn,
\* never given to a removal operator or to image_to_glyph, never marked modified,
\* and ends a finished run with the outline of "space".
C7_UnmappedSkipped ==
    \A k \in 1 .. Len(font) :
        (font[k].name = ".notdef" \/ font[k].code = NoCode) =>
            /\ font[k].name \notin rasterized
            /\ removal[font[k].name] = "none"
            /\ returned[font[k].name] = NoOutline
            /\ font[k].name \notin modified_glyphs
            /\ pc = "done" => glyf[font[k].name] = glyf["space"]

\* C8: with reduction_percentage = 0 and render_mode = "original", when the call
\* has ended every glyph that was drawn on the canvas has been given to
\* image_to_glyph.
C8_ZeroReductionCompletes ==
    (cfg.reduction_percentage = 0 /\ cfg.render_mode = "original"
        /\ pc \in {"done", "raised"})
        => \A n \in rasterized : returned[n] # NoOutline

\* C9: under each of the three dithering modes, every bitmap that was perforated
\* was perforated by the operator of that mode.
C9_MatchingOperator ==
    LET configured ==
            CASE cfg.dithering_mode = "blue_noise" -> "point"
              [] cfg.dithering_mode = "shape" -> "shape"
              [] cfg.dithering_mode = "line" -> "line"
    IN  cfg.dithering_mode \in {"blue_noise", "shape", "line"} =>
            \A n \in DOMAIN removal : removal[n] \in {"none", configured}

C11_OnePixelPerDistinctPoint ==
    (bn.pc = "returned" /\ bn.point_size = 1) =>
        LET coords == {bn.sobol_points[k] : k \in 1 .. Len(bn.sobol_points)}
            white  == {p \in PointPixels : bn.image[p] = Background}
        IN /\ \A p \in PointPixels \ coords : bn.image[p] = bn.input[p]
           /\ \A p \in coords : bn.image[p] = Background
           /\ (\A p \in PointPixels : bn.input[p] = Ink) =>
                 /\ Cardinality(white) = Cardinality(coords)
                 /\ Cardinality(white) <= Len(bn.sobol_points)

\* two different points on an all-ink bitmap: two background pixels
C11_Witness ==
    /\ bn.pc = "returned" /\ bn.point_size = 1
    /\ \A p \in PointPixels : bn.input[p] = Ink
    /\ Len(bn.sobol_points) = 2
    /\ bn.sobol_points[1] # bn.sobol_points[2]
    /\ Cardinality({p \in PointPixels : bn.image[p] = Background}) = 2

\* C11 as stated: with point_size = 1, an array of k points on an all-ink
\* bitmap leaves exactly k background pixels.
C11_ExactlyKBackground ==
    (bn.pc = "returned" /\ bn.point_size = 1
        /\ \A p \in PointPixels : bn.input[p] = Ink)
        => Cardinality({p \in PointPixels : bn.image[p] = Background})
               = Len(bn.sobol_points)

\* C12: one point whose neighbourhood lies inside the bitmap whitens
\* point_size * point_size pixels of an all-ink bitmap.
C12_SquareOfSidePointSize ==
    (/\ bn.pc = "returned" /\ Len(bn.sobol_points) = 1
     /\ \A p \in PointPixels : bn.input[p] = Ink
     /\ \A c \in 1 .. 2 :
          /\ bn.sobol_points[1][c] - bn.point_size \div 2 >= 0
          /\ bn.sobol_points[1][c] + bn.point_size \div 2 <= PointCanvas - 1)
        => Cardinality({p \in PointPixels : bn.image[p] = Background})
               = bn.point_size * bn.point_size

(***************************************************************************)
(* Properties of apply_shape_dithering, checked under SpecShape.           *)
(***************************************************************************)
\* C13: at every point of a call with an integer shape size, each pixel less
\* than `margin` away from an edge of the canvas has in the result the value it
\* has in the input.
C13_MarginNeverPainted ==
    sh.shape_size.is_int =>
        \A p \in ShapeCanvasPixels :
            (\/ p[1] < sh.margin \/ p[1] >= ShapeCanvas - sh.margin
             \/ p[2] < sh.margin \/ p[2] >= ShapeCanvas - sh.margin)
                => sh.image[p] = sh.input[p]

\* a call with margin 2 that has returned with a shape placed, after a
\* candidate centre inside the margin was turned down
C13_Witness ==
    /\ sh.pc = "returned" /\ sh.margin = 2 /\ sh.shape_size.is_int
    /\ Len(sh.placed) >= 1
    /\ \E c \in sh.seen : c[1] < sh.margin /\ sh.image[c] = Ink
    /\ \E p \in ShapeCanvasPixels : sh.image[p] # sh.input[p]

C16_SimplifyToLowerLevel ==
    sm.pc = "returned" =>
        /\ 2 <= sm.num_levels /\ sm.num_levels <= 256
        /\ DOMAIN sm.image = DOMAIN sm.input
        /\ Cardinality({sm.image[p] : p \in DOMAIN sm.image}) <= sm.num_levels
        /\ Cardinality(sm.levels) <= sm.num_levels
        /\ 0 \in sm.levels
        /\ \A l \in sm.levels :
             /\ 0 <= l /\ l < 256
             /\ l % (256 \div (sm.num_levels - 1)) = 0
        /\ \A p \in DOMAIN sm.input :
             /\ sm.image[p] \in sm.levels
             /\ sm.image[p] <= sm.input[p]
             /\ ~ \E l \in sm.levels : sm.image[p] < l /\ l <= sm.input[p]

\* four levels 0, 85, 170, 255: a pixel of 200 became 170, one of 85 stayed
C16_Witness ==
    /\ sm.pc = "returned" /\ sm.num_levels = 4
    /\ sm.levels = {0, 85, 170, 255}
    /\ sm.input[<<0, 0>>] = 200 /\ sm.image[<<0, 0>>] = 170
    /\ sm.input[<<1, 0>>] = 85 /\ sm.image[<<1, 0>>] = 85

(***************************************************************************)
(* Properties of image_to_glyph, checked under SpecGlyph.                  *)
(***************************************************************************)
\* C17: for a font that has a glyph "space", a call of image_to_glyph never ends
\* with an exception, whichever step of it failed.
C17_FailureReturnsSpace ==
    ig.has_space => ig.pc # "raised"

\* C18: an outline image_to_glyph returns for the glyph table has at most
\* 65,535 points.
C18_NoOutlineOverLimit ==
    (ig.pc = "returned" /\ ig.glyph.kind = "traced") => ig.glyph.points <= ContourLimit

\* C19: without with_bug, each point (x, y) of the outline is returned as the
\* integers nearest to x * s and to -y * s + ascender: neither is further than
\* one half from the exact value.
C19_CoordinatesRounded ==
    (ig.pc = "returned" /\ ig.glyph.kind = "traced" /\ ~ig.with_bug) =>
        LET s == FinalScaleFactor(ig.scale_factor, ig.units_per_em)
            dist(a, b) == IF a >= b THEN a - b ELSE b - a
        IN \A k \in 1 .. Len(ig.glyph.coordinates) :
             /\ 2 * dist(ig.glyph.coordinates[k][1] * s.den,
                         ig.pen.coordinates[k][1] * s.num) <= s.den
             /\ 2 * dist(ig.glyph.coordinates[k][2] * s.den,
                         ig.ascender * s.den - ig.pen.coordinates[k][2] * s.num) <= s.den

(***************************************************************************)
(* Properties of the name rewrite of perforate_font, checked under Spec.   *)
(***************************************************************************)
\* C20: once the name rewrite has run, the name table has the records it was
\* loaded with, in their order; each record with nameID 1 or 4 holds the str
\* "Font Eco" if its payload was bytes that do not decode as UTF-16BE, and
\* otherwise the decoded payload (or the payload, if it was a str) followed by
\* " Eco"; every other record is as it was loaded.  No call ends with an
\* exception between the post-pass and the end of the name rewrite.
C20_NamesGetSuffix ==
    /\ "rename" \in stages =>
         /\ Len(names) = Len(LoadedNames)
         /\ \A k \in 1 .. Len(names) :
              LET old == LoadedNames[k]
                  failed == old.string.kind = "bytes"
                            /\ (Len(old.string.data) % 2 = 1
                                \/ ~UnitsDecodable(Utf16Units(old.string.data)))
              IN /\ names[k].nameID = old.nameID
                 /\ IF old.nameID \notin {1, 4} THEN names[k] = old
                    ELSE IF failed THEN names[k].string = Str(Fallback)
                    ELSE /\ names[k].string.kind = "str"
                         /\ Len(names[k].string.data) >= Len(Suffix)
                         /\ SubSeq(names[k].string.data,
                                   Len(names[k].string.data) - Len(Suffix) + 1,
                                   Len(names[k].string.data)) = Suffix
                         /\ SubSeq(names[k].string.data, 1,
                                   Len(names[k].string.data) - Len(Suffix))
                              = IF old.string.kind = "str" THEN old.string.data
                                ELSE Utf16Decode(old.string.data)
    /\ "rename" \notin stages => names = LoadedNames
    /\ (pc = "raised" /\ "blank" \in stages) => "rename" \in stages

\* a call that returned: the family name "Ti" is "Ti Eco", the three bytes of
\* the MacRoman full name became "Font Eco", the subfamily is as loaded
C20_Witness ==
    /\ pc = "done"
    /\ names[1].string = Str(<<84, 105, 32, 69, 99, 111>>)
    /\ names[3].string = Str(Fallback)
    /\ names[2] = LoadedNames[2]
    /\ names[6].string = Str(<<65536, 32, 69, 99, 111>>)

(***************************************************************************)
(* Properties of the desktop window, checked under SpecGui.                *)
(***************************************************************************)
\* C21: every keyword a worker passes to perforate_font is one of its
\* parameters, and a worker started with a font that can be read ends with the
\* call returned (progress 100 and finished emitted) or with an error the
\* pipeline raised, never with the TypeError of the call.
C21_OptionsAccepted ==
    \A t \in 1 .. Len(gui.threads) :
        /\ DOMAIN gui.threads[t].options \subseteq Parameters
        /\ (gui.threads[t].pc = "ended" /\ gui.threads[t].input_path = "font.ttf")
              => gui.threads[t].outcome \in {"returned", "ValueError"}

\* C30: at most one worker is between its start and the emission of finished
\* or error.
C30_OneWorkerRunning ==
    Cardinality({t \in 1 .. Len(gui.threads) : gui.threads[t].pc = "running"}) <= 1

(***************************************************************************)
(* Properties of apply_shape_dithering, checked under SpecShape.           *)
(***************************************************************************)
\* C22: for a percentage in 0..100 the shapes placed are never more than
\* floor(ink pixels of the input * percentage / 100); every centre examined and
\* every centre of a placed shape is an ink pixel of the input; and a call with
\* a valid shape type and a valid size policy (integer, "random", "biggest") on
\* a bitmap without ink never raises, places nothing and returns the bitmap it
\* was given.
C22_AtMostNShapes ==
    LET ink == {p \in DOMAIN sh.input : sh.input[p] = Ink}
        N   == (Cardinality(ink) * sh.reduction_percentage) \div 100
    IN sh.reduction_percentage \in 0 .. 100 =>
         /\ Len(sh.placed) <= N
         /\ Cardinality(sh.seen) <= N
         /\ sh.seen \subseteq ink
         /\ \A k \in 1 .. Len(sh.placed) : <<sh.placed[k][1], sh.placed[k][2]>> \in ink
         /\ (/\ ink = {}
             /\ sh.shape_type \in {"circle", "rectangle"}
             /\ sh.shape_size.is_int \/ sh.shape_size.s \in {"random", "biggest"})
              => /\ sh.pc # "raised"
                 /\ sh.placed = <<>>
                 /\ sh.image = sh.input
                 /\ sh.pc # "call" => sh.todo = 0

\* a call with shape_size "biggest" on a bitmap that is all background returned
C22_Witness ==
    /\ sh.pc = "returned"
    /\ \A p \in DOMAIN sh.input : sh.input[p] = Background
    /\ sh.shape_type = "circle"
    /\ sh.shape_size = SizeStr("biggest")
    /\ sh.image = sh.input /\ sh.placed = <<>>

\* C23: a call with shape_size "biggest" or "random" and a valid shape type
\* never ends with an exception.
C23_SizePolicyCompletes ==
    (sh.shape_type \in {"circle", "rectangle"}
        /\ ~sh.shape_size.is_int /\ sh.shape_size.s \in {"random", "biggest"})
        => sh.pc # "raised"

(***************************************************************************)
(* A property of the level table of simplify_image, checked under          *)
(* SpecSimplify.                                                           *)
(***************************************************************************)
\* C24: for num_levels in 2..256 the level table has num_levels levels, the
\* multiples 0, step, ..., (num_levels - 1) * step of step = 256 // (num_levels - 1).
C24_LevelCount ==
    (sm.pc \in {"quantize", "returned"} /\ sm.num_levels \in 2 .. 256)
        => /\ Cardinality(sm.levels) = sm.num_levels
           /\ sm.levels = {k * (256 \div (sm.num_levels - 1)) : k \in 0 .. sm.num_levels - 1}

(***************************************************************************)
(* A property of the drawing of a glyph, checked under SpecRaster.         *)
(***************************************************************************)
\* C25: a glyph is drawn in exactly one way, the first that applies of: (1) its
\* own character as text, if it has a codepoint and is no composite; (2) the
\* Latin substitute of the special-case table, if its name is in that table;
\* (3) the Latin analogue, if its codepoint is in the Cyrillic block and in the
\* analogue table; (4) its decomposed outline.  A glyph in both tables is drawn
\* with the substitute of the special-case table.
C25_BranchPriority ==
    LET g        == rs.glyph
        has_code == g.code # NoCode
        in_two   == g.name \in {"uni041D", "uni041F", "uni042D", "uni042F", "uni044D",
                                "uni044F", "uni0401", "uni0451", "uni0419", "uni0439"}
        in_three == has_code /\ 1024 <= g.code /\ g.code <= 1279
                    /\ g.code \in {1040, 1042, 1045, 1047, 1048, 1050, 1052, 1054, 1056,
                                   1057, 1058, 1059, 1061, 1072, 1077, 1086, 1088, 1089,
                                   1091, 1093}
        expected == IF has_code /\ ~g.composite THEN "text"
                    ELSE IF in_two THEN "substitute"
                    ELSE IF in_three THEN "analogue"
                    ELSE "outline"
    IN /\ rs.pc \in {"clear", "draw"} => rs.drawn = "nothing"
       /\ rs.pc \in {"drawn", "raised"} =>
            /\ rs.drawn = expected
            /\ rs.drawn = "text" => rs.char = g.code
            /\ rs.drawn = "substitute" => rs.char = cyrillic_special_cases[g.name]
            /\ rs.drawn = "analogue" => rs.char = cyrillic_to_latin[g.code]
            /\ rs.drawn = "outline" => rs.char = NoCode

\* the composite glyph "uni0419" with the codepoint U+0418, which is in both
\* tables, was drawn as the substitute "N" of the special-case table
C25_Witness ==
    /\ rs.pc = "drawn"
    /\ rs.glyph.name = "uni0419" /\ rs.glyph.code = 1048 /\ rs.glyph.composite
    /\ rs.drawn = "substitute" /\ rs.char = 78

(***************************************************************************)
(* Properties of the ordering of centroids, checked under SpecPath and     *)
(* SpecPathFair.                                                           *)
(***************************************************************************)
\* C26: in optimized mode the order starts with the first centroid, never
\* repeats a centroid, and each further centroid is, among those not yet in the
\* order, one of least distance from the one before it; the pen gets one moveTo
\* to the first centroid, one lineTo for each other centroid in that order, and
\* one closePath.
C26_GreedyNearest ==
    LET n     == Len(pw.centroids)
        order == pw.path_order
        d2(j, k) == (pw.centroids[j][1] - pw.centroids[k][1]) * (pw.centroids[j][1] - pw.centroids[k][1])
                    + (pw.centroids[j][2] - pw.centroids[k][2]) * (pw.centroids[j][2] - pw.centroids[k][2])
    IN (pw.pc # "idle" /\ pw.render_mode = "optimized") =>
         /\ order[1] = 1
         /\ \A a, b \in 1 .. Len(order) : a # b => order[a] # order[b]
         /\ \A k \in 2 .. Len(order) :
              \A j \in (1 .. n) \ {order[m] : m \in 1 .. k - 1} :
                 d2(order[k], order[k - 1]) <= d2(j, order[k - 1])
         /\ pw.pc = "drawn" =>
              /\ {order[k] : k \in 1 .. Len(order)} = 1 .. n
              /\ Len(pw.pen) = n + 1
              /\ pw.pen[1] = [cmd |-> "moveTo", pt |-> pw.centroids[1]]
              /\ \A k \in 2 .. n :
                   pw.pen[k] = [cmd |-> "lineTo", pt |-> pw.centroids[order[k]]]
              /\ pw.pen[n + 1].cmd = "closePath"

\* three centroids given as (0,0), (4,0), (2,0) were drawn in the order
\* (0,0), (2,0), (4,0)
C26_Witness ==
    /\ pw.pc = "drawn" /\ pw.render_mode = "optimized"
    /\ pw.centroids = << <<0, 0>>, <<4, 0>>, <<2, 0>> >>
    /\ pw.path_order = <<1, 3, 2>>
    /\ Len(pw.pen) = 4

\* C27: in optimized_masked mode every lineTo of the drawn path joins two
\* centroids that are at most 20% of the diagonal of the canvas apart and whose
\* segment has all its pixels on the mask; a centroid the walk restarted from is
\* the target of a moveTo, not of a lineTo.
C27_SegmentsValid ==
    (pw.pc = "drawn" /\ pw.render_mode = "optimized_masked") =>
        \A k \in 2 .. Len(pw.pen) - 1 :
            IF k \in pw.restarts THEN pw.pen[k].cmd = "moveTo"
            ELSE /\ pw.pen[k].cmd = "lineTo"
                 /\ 25 * Dist2(pw.pen[k - 1].pt, pw.pen[k].pt) <= 2 * WalkCanvas * WalkCanvas
                 /\ LinePixels(pw.pen[k - 1].pt, pw.pen[k].pt) \subseteq pw.mask

\* C28: in optimized_masked mode every turn of the walk adds exactly one
\* centroid that was not visited, the walk never stops with a centroid left
\* out, the order never repeats a centroid, and the walk ends: the path is
\* drawn, with every centroid in it once.
C28_WalkTerminates ==
    /\ [](pw.pc # "idle" /\ pw.render_mode = "optimized_masked" =>
            /\ ~pw.broken
            /\ Len(pw.path_order) = Cardinality(pw.visited)
            /\ {pw.path_order[k] : k \in 1 .. Len(pw.path_order)} = pw.visited
            /\ pw.visited \subseteq 1 .. Len(pw.centroids)
            /\ pw.pc = "drawn" => /\ pw.visited = 1 .. Len(pw.centroids)
                                  /\ Len(pw.pen) = Len(pw.centroids) + 1)
    /\ [][(pw.render_mode = "optimized_masked" /\ pw.pc = "walk" /\ pw'.pc = "walk")
            => /\ Len(pw'.path_order) = Len(pw.path_order) + 1
               /\ pw'.path_order[Len(pw'.path_order)] \notin pw.visited]_vars
    /\ <>(pw.pc = "drawn")

\* on an empty mask three centroids were all reached by restarts
C28_Witness ==
    /\ pw.pc = "drawn" /\ pw.render_mode = "optimized_masked"
    /\ pw.mask = {}
    /\ Len(pw.centroids) = 3
    /\ pw.restarts = {2, 3}
    /\ pw.visited = {1, 2, 3}

(***************************************************************************)
(* A property of the render canvas of perforate_font, checked under Spec.  *)
(***************************************************************************)
\* C29: the bitmap a glyph is rasterized to is the one its drawing gives on a
\* canvas that is all background: no pixel of it is ink left by the drawing or
\* the removal of an earlier glyph, whatever the dithering mode and whether or
\* not the reconstruction of the earlier glyph failed.  A drawing that raises
\* leaves the canvas all background.
C29_CanvasCleared ==
    [][pc = "rasterize" =>
         \A p \in Pixels :
            IF pc' = "raised" THEN image'[p] = Background
            ELSE image'[p] = Rasterized([q \in Pixels |-> Background], glyph)[p]]_vars

\* the second glyph, a composite, has been drawn: the canvas holds its two
\* points only, although the first glyph "A" filled the canvas, had points
\* removed in place, and its reconstruction failed
C29_Witness ==
    /\ pc = "points" /\ i = 2
    /\ font[1].name = "A" /\ font[2].name = "Aacute"
    /\ removal["A"] = "point" /\ "A" \notin modified_glyphs
    /\ image[<<0, 0>>] = Ink /\ image[<<1, 0>>] = Background

====
